---- MODULE Spec2Model ----
(***************************************************************************)
(* A model of the Clearly-Politics data pipeline.                          *)
(*                                                                         *)
(* DataProcessor (src/js/data-processor.js) is modelled as an object with  *)
(* two fields, statePopulations and politicalClassifications, and one      *)
(* action per public method; processGunViolenceByPolitics is followed      *)
(* through its forEach loop.  An action draws the method's arguments from  *)
(* bounded sets, and records the call and the value it returns.            *)
(*                                                                         *)
(* MultiNewsService (src/js/multi-news-service.js) is modelled with its    *)
(* two fields, apiKeys and requestCounts, and the getArticles calls of     *)
(* several callers; a call gives way to the other calls at each await.     *)
(*                                                                         *)
(* APIHandlers (src/unnamed/part_001) is modelled with its cache and the   *)
(* fetchWithCache calls of two loaders, NewsService (src/js/news-api.js)   *)
(* with its newsCache and the getArticles calls of two readers; both read  *)
(* the clock now, which Tick moves on.                                     *)
(*                                                                         *)
(* DataValidator (src/validate-data.js) is modelled as one run of          *)
(* validateAll over the latest.json it finds, up to the exit of the        *)
(* process; the writeFile of its report is followed through the opening    *)
(* and the writing of the file.                                            *)
(*                                                                         *)
(* DataCollector (src/scripts/collect-data.js) is modelled with the call   *)
(* of one of its collect methods, the analyzeIncidents call and the        *)
(* collectAllData call; each call takes one step per await, and a request  *)
(* or a write to a file either succeeds or fails.                          *)
(*                                                                         *)
(* Numbers.  A JavaScript number is an IEEE-754 binary64.                  *)
(*  - Incident counts and populations are integers far below 2^53, on      *)
(*    which + is exact: they are modelled as integers.                     *)
(*  - calculatePearsonCorrelation, interpretCorrelation and analyzeTrend   *)
(*    work on arbitrary numbers, and every + - * / sqrt rounds its exact   *)
(*    result to the nearest representable value (ties to even).  The model *)
(*    keeps that rounding and shortens the significand from 53 bits to     *)
(*    FloatBits bits, so that the sums of small series already need        *)
(*    rounding.  The exponent is unbounded (no overflow, no underflow).    *)
(*  - The growth rates and averages of processMonthlyTrends are rounded    *)
(*    for output; they are modelled by the rounding of the exact quotient. *)
(***************************************************************************)
EXTENDS Integers, Sequences, FiniteSets, TLC

\* ------------------------------------------------------------------ bounds

\* Bits of the significand of a modelled number (53 in JavaScript).
FloatBits == 4
\* Longest series handed to calculatePearsonCorrelation.
MaxSeries == 3
\* Longest stateBreakdown list handed to processGunViolenceByPolitics.
MaxRecords == 3
\* Longest stateBreakdown list handed to processGunLawCorrelation.
MaxPoints == 2
\* The coefficients handed to interpretCorrelation are m * 2^e with
\* |m| < 2^FloatBits and -MaxScale <= e <= 0.
MaxScale == 8
\* Longest list of months handed to processMonthlyTrends.
MaxMonths == 5
\* Longest series handed to analyzeTrend.
MaxTrend == 6
\* Callers with a getArticles call on one MultiNewsService at the same time.
MaxCallers == 2
\* Hours that the clock runs for.
MaxHours == 2
\* Longest list of incidents handed to analyzeIncidents.
MaxIncidents == 2

\* ------------------------------------------- binary floating point numbers

\* A finite number is m * 2^e, kept canonical: m is odd, or m = 0 and e = 0.
NaN == [k |-> "nan", m |-> 0, e |-> 0]
Zero == [k |-> "num", m |-> 0, e |-> 0]

Abs(n) == IF n < 0 THEN -n ELSE n

Sign(n) == IF n < 0 THEN -1 ELSE IF n > 0 THEN 1 ELSE 0

Min(a, b) == IF a < b THEN a ELSE b

\* Number of bits of n > 0.
RECURSIVE BitLen(_)
BitLen(n) == IF n < 2 THEN 1 ELSE 1 + BitLen(n \div 2)

RECURSIVE Canon(_, _)
Canon(m, e) ==
    IF m = 0 THEN Zero
    ELSE IF m % 2 = 0 THEN Canon(m \div 2, e + 1)
    ELSE [k |-> "num", m |-> m, e |-> e]

\* The number nearest to sign * (mag + d) * 2^e, ties to even, where d = 0 if
\* ~sticky and 0 < d < 1 if sticky (then mag has more than FloatBits bits).
Round(sign, mag, e, sticky) ==
    IF mag = 0 THEN Zero
    ELSE LET L == BitLen(mag) IN
         IF L <= FloatBits THEN Canon(sign * mag, e)
         ELSE LET s == L - FloatBits
                  q == mag \div 2^s
                  r == mag % 2^s
                  half == 2^(s-1)
                  up == r > half \/ (r = half /\ (sticky \/ q % 2 = 1))
              IN  Canon(sign * (IF up THEN q + 1 ELSE q), e + s)

\* Number(n) for an integer n: the nearest representable number.
FromInt(n) == Round(Sign(n), Abs(n), 0, FALSE)

Fneg(a) == IF a.k = "nan" THEN NaN ELSE [a EXCEPT !.m = -a.m]

\* a + b
Fadd(a, b) ==
    IF a.k = "nan" \/ b.k = "nan" THEN NaN
    ELSE LET e == Min(a.e, b.e)
             m == a.m * 2^(a.e - e) + b.m * 2^(b.e - e)
         IN  Round(Sign(m), Abs(m), e, FALSE)

\* a - b
Fsub(a, b) == Fadd(a, Fneg(b))

\* a * b
Fmul(a, b) ==
    IF a.k = "nan" \/ b.k = "nan" THEN NaN
    ELSE Round(Sign(a.m) * Sign(b.m), Abs(a.m) * Abs(b.m), a.e + b.e, FALSE)

\* a / b for b # 0 (both callers test the divisor first); 0/0 is NaN.
Fdiv(a, b) ==
    IF a.k = "nan" \/ b.k = "nan" \/ b.m = 0 THEN NaN
    ELSE LET sh == 2 * FloatBits + 2
             num == Abs(a.m) * 2^sh
             den == Abs(b.m)
         IN  Round(Sign(a.m) * Sign(b.m), num \div den, a.e - b.e - sh,
                   num % den # 0)

\* floor(sqrt(n)) for 0 <= n < 4^(bits+1), one bit at a time from bit `bits`
\* down: acc is the part of the root found so far.
RECURSIVE ISqrtFrom(_, _, _)
ISqrtFrom(n, bits, acc) ==
    LET try == acc + 2^bits
        next == IF try * try <= n THEN try ELSE acc
    IN  IF bits = 0 THEN next ELSE ISqrtFrom(n, bits - 1, next)

ISqrt(n) == ISqrtFrom(n, 2 * FloatBits, 0)

\* Math.sqrt(a): NaN for a < 0
Fsqrt(a) ==
    IF a.k = "nan" \/ a.m < 0 THEN NaN
    ELSE IF a.m = 0 THEN Zero
    ELSE LET sh == 2 * FloatBits + (a.e % 2)
             big == a.m * 2^sh
             s == ISqrt(big)
         IN  Round(1, s, (a.e - sh) \div 2, s * s # big)

\* The sign of a - b, for finite a and b.
Fcmp(a, b) ==
    LET e == Min(a.e, b.e)
    IN  Sign(a.m * 2^(a.e - e) - b.m * 2^(b.e - e))

\* ---------------------------------------------------------------- DataProcessor

VARIABLES
    statePopulations,          \* this.statePopulations
    politicalClassifications,  \* this.politicalClassifications
    pc,                        \* "idle", or "forEach" inside processGunViolenceByPolitics
    locals,                    \* redStates, blueStates, swingStates and the forEach index
    op,                        \* the method the caller called, "none" before a call
    args,                      \* its arguments
    ret,                       \* the value it returned
    apiKeys,                   \* MultiNewsService: this.apiKeys, the providers with a key
    requestCounts,             \* MultiNewsService: this.requestCounts
    calls,                     \* the getArticles call of each caller: where it is
    mediastackRequests,        \* the HTTP requests sent to Mediastack so far
    now,                       \* Date.now(), in milliseconds since the start
    cache,                     \* APIHandlers: this.cache, a Map from key to entry
    fetches,                   \* the fetchWithCache or getCacheStatus call of each loader
    network,                   \* the loaders whose request is in flight
    newsCache,                 \* NewsService: this.newsCache, a Map from key to entry
    lookups,                   \* the NewsService.getArticles call of each reader
    apiCalls,                  \* the readers whose news API call is in flight
    files,                     \* the files of the data directory: name to content
    validatorPc,               \* DataValidator: where validateAll is
    errors,                    \* DataValidator: this.errors
    warnings,                  \* DataValidator: this.warnings
    exit,                      \* the code the validator's process exited with
    caught,                    \* the exception that validateAll caught
    reportWrite,               \* the writeFile that saveReport started
    collect,                   \* DataCollector: the call of one of the collect methods
    analysis,                  \* DataCollector: the analyzeIncidents call
    run                        \* DataCollector: the collectAllData call

processorVars ==
    <<statePopulations, politicalClassifications, pc, locals, op, args, ret>>

serviceVars == <<apiKeys, requestCounts, calls, mediastackRequests>>

\* The fields of the other objects of the pipeline.
handlersVars == <<cache, fetches, network>>

newsVars == <<newsCache, lookups, apiCalls>>

validatorVars == <<validatorPc, errors, warnings, exit, caught, reportWrite>>

collectorVars == <<collect, analysis, run>>

pipelineVars == <<now, handlersVars, newsVars, files, validatorVars, collectorVars>>

\* What the actions of one object leave alone.
exceptHandlers ==
    <<processorVars, serviceVars, newsVars, files, validatorVars, collectorVars>>

exceptNews ==
    <<processorVars, serviceVars, handlersVars, files, validatorVars, collectorVars>>

exceptClock ==
    <<processorVars, serviceVars, handlersVars, newsVars, files, validatorVars,
      collectorVars>>

exceptValidator ==
    <<processorVars, serviceVars, now, handlersVars, newsVars, collectorVars>>

exceptCollector ==
    <<processorVars, serviceVars, now, handlersVars, newsVars, validatorVars>>

vars == <<processorVars, serviceVars, pipelineVars>>

\* --- constructor

ConstructorPopulations ==
    "AL" :> 5108468 @@ "AK" :> 733406 @@ "AZ" :> 7359197 @@ "AR" :> 3045637
    @@ "CA" :> 38965193 @@ "CO" :> 5895630 @@ "CT" :> 3626205 @@ "DE" :> 1003384
    @@ "FL" :> 22610726 @@ "GA" :> 10912876 @@ "HI" :> 1440196 @@ "ID" :> 1964726
    @@ "IL" :> 12620571 @@ "IN" :> 6833037 @@ "IA" :> 3207004 @@ "KS" :> 2940865
    @@ "KY" :> 4512310 @@ "LA" :> 4590241 @@ "ME" :> 1395722 @@ "MD" :> 6164660
    @@ "MA" :> 7001399 @@ "MI" :> 10037261 @@ "MN" :> 5737915 @@ "MS" :> 2940057
    @@ "MO" :> 6196994 @@ "MT" :> 1122069 @@ "NE" :> 1986765 @@ "NV" :> 3194176
    @@ "NH" :> 1402054 @@ "NJ" :> 9261699 @@ "NM" :> 2113344 @@ "NY" :> 19469232
    @@ "NC" :> 10835491 @@ "ND" :> 783926 @@ "OH" :> 11785935 @@ "OK" :> 4019800
    @@ "OR" :> 4233358 @@ "PA" :> 12972008 @@ "RI" :> 1095962 @@ "SC" :> 5282634
    @@ "SD" :> 909824 @@ "TN" :> 7126489 @@ "TX" :> 30503301 @@ "UT" :> 3380800
    @@ "VT" :> 647464 @@ "VA" :> 8715698 @@ "WA" :> 7812880 @@ "WV" :> 1775156
    @@ "WI" :> 5892539 @@ "WY" :> 581381

ConstructorClassifications ==
    [red |-> <<"AL", "AK", "AR", "FL", "ID", "IN", "IA", "KS", "KY", "LA",
               "MS", "MO", "MT", "NE", "ND", "OH", "OK", "SC", "SD", "TN",
               "TX", "UT", "WV", "WY">>,
     blue |-> <<"CA", "CO", "CT", "DE", "HI", "IL", "ME", "MD", "MA", "MI",
                "MN", "NV", "NH", "NJ", "NM", "NY", "OR", "RI", "VT", "VA",
                "WA", "DC">>,
     swing |-> <<"AZ", "GA", "NC", "PA", "WI">>]

Categories == {"red", "blue", "swing"}

\* list.includes(v)
includes(list, v) == \E i \in 1..Len(list) : list[i] = v

\* --- rates

\* The default of calculatePerCapita's third parameter; no caller passes another.
PerCapitaMultiplier == 100000

\* A rate is the unevaluated quotient (n / d) * mult with d # 0, or it is NaN or
\* an infinity of sign n.
RateNaN == [k |-> "nan", n |-> 0, d |-> 0, mult |-> 0]

RateInfinity(sign) == [k |-> "inf", n |-> sign, d |-> 0, mult |-> 0]

\* A variant with the quotient upside down.
calculatePerCapita_Inverted(incidents, population) ==
    IF incidents # 0
    THEN [k |-> "num", n |-> population, d |-> incidents, mult |-> PerCapitaMultiplier]
    ELSE IF population = 0 THEN RateNaN
    ELSE RateInfinity(Sign(population))

calculatePerCapita(incidents, population) ==
    IF population # 0
    THEN [k |-> "num", n |-> incidents, d |-> population, mult |-> PerCapitaMultiplier]
    ELSE IF incidents = 0 THEN RateNaN
    ELSE RateInfinity(Sign(incidents) * Sign(PerCapitaMultiplier))

\* The quotient of line 43 as the machine computes it: one rounding for the
\* division and one for the multiplication.
ToNumber(rate) ==
    IF rate.k # "num" THEN NaN
    ELSE Fmul(Fdiv(FromInt(rate.n), FromInt(rate.d)), FromInt(rate.mult))

\* --- processGunViolenceByPolitics

\* this.statePopulations[state] || 0
PopulationOrZero(state) ==
    IF state \in DOMAIN statePopulations THEN statePopulations[state] ELSE 0

ZeroTotals == [incidents |-> 0, population |-> 0]

NoLocals ==
    [redStates |-> ZeroTotals, blueStates |-> ZeroTotals, swingStates |-> ZeroTotals,
     index |-> 0]

AddTo(totals, incidents, population) ==
    [incidents |-> totals.incidents + incidents,
     population |-> totals.population + population]

\* Variants of the forEach callback, each with one slip.
\* The swing branch is missing.
accumulateStateData_NoSwing(loc, stateData) ==
    LET state == stateData.state
        incidents == stateData.incidents
        population == IF state \in DOMAIN statePopulations THEN statePopulations[state] ELSE 0
    IN  IF includes(politicalClassifications.red, state)
        THEN [loc EXCEPT !.redStates = AddTo(@, incidents, population)]
        ELSE IF includes(politicalClassifications.blue, state)
        THEN [loc EXCEPT !.blueStates = AddTo(@, incidents, population)]
        ELSE loc

\* The last branch is a plain else: a state in no list counts as swing.
accumulateStateData_ElseSwing(loc, stateData) ==
    LET state == stateData.state
        incidents == stateData.incidents
        population == IF state \in DOMAIN statePopulations THEN statePopulations[state] ELSE 0
    IN  IF includes(politicalClassifications.red, state)
        THEN [loc EXCEPT !.redStates = AddTo(@, incidents, population)]
        ELSE IF includes(politicalClassifications.blue, state)
        THEN [loc EXCEPT !.blueStates = AddTo(@, incidents, population)]
        ELSE [loc EXCEPT !.swingStates = AddTo(@, incidents, population)]

\* A state's population is added only the first time the state is seen.
accumulateStateData_OncePerState(loc, stateData) ==
    LET state == stateData.state
        incidents == stateData.incidents
        seen == \E j \in 1..(loc.index - 1) : args.stateBreakdown[j].state = state
        population == IF seen \/ state \notin DOMAIN statePopulations
                      THEN 0 ELSE statePopulations[state]
    IN  IF includes(politicalClassifications.red, state)
        THEN [loc EXCEPT !.redStates = AddTo(@, incidents, population)]
        ELSE IF includes(politicalClassifications.blue, state)
        THEN [loc EXCEPT !.blueStates = AddTo(@, incidents, population)]
        ELSE IF includes(politicalClassifications.swing, state)
        THEN [loc EXCEPT !.swingStates = AddTo(@, incidents, population)]
        ELSE loc

\* The body of the forEach callback, on the locals loc.
accumulateStateData(loc, stateData) ==
    LET state == stateData.state
        incidents == stateData.incidents
        population == PopulationOrZero(state)
    IN  IF includes(politicalClassifications.red, state)
        THEN [loc EXCEPT !.redStates = AddTo(@, incidents, population)]
        ELSE IF includes(politicalClassifications.blue, state)
        THEN [loc EXCEPT !.blueStates = AddTo(@, incidents, population)]
        ELSE IF includes(politicalClassifications.swing, state)
        THEN [loc EXCEPT !.swingStates = AddTo(@, incidents, population)]
        ELSE loc

WithRate(totals) ==
    [incidents |-> totals.incidents,
     population |-> totals.population,
     rate |-> calculatePerCapita(totals.incidents, totals.population)]

GunViolenceResult(loc) ==
    [red |-> WithRate(loc.redStates),
     blue |-> WithRate(loc.blueStates),
     swing |-> WithRate(loc.swingStates)]

\* The whole method, for the callers that use it as a function.
RECURSIVE AccumulateTo(_, _)
AccumulateTo(stateBreakdown, i) ==
    IF i = 0 THEN NoLocals
    ELSE accumulateStateData(AccumulateTo(stateBreakdown, i - 1), stateBreakdown[i])

processGunViolenceByPolitics(rawData) ==
    GunViolenceResult(AccumulateTo(rawData.stateBreakdown, Len(rawData.stateBreakdown)))

\* --- calculatePearsonCorrelation

\* x.reduce((a, b) => a + b, 0), over the first i elements of x.
RECURSIVE SumTo(_, _)
SumTo(x, i) == IF i = 0 THEN Zero ELSE Fadd(SumTo(x, i - 1), x[i])

\* x.reduce((sum, xi, i) => sum + xi * y[i], 0), over the first i elements.
RECURSIVE SumProdTo(_, _, _)
SumProdTo(x, y, i) ==
    IF i = 0 THEN Zero ELSE Fadd(SumProdTo(x, y, i - 1), Fmul(x[i], y[i]))

\* A variant with sumX typed where sumY belongs.
PearsonNumerator_SumXTwice(x, y) ==
    LET n == FromInt(Len(x))
        sumX == SumTo(x, Len(x))
        sumXY == SumProdTo(x, y, Len(x))
    IN  Fsub(Fmul(n, sumXY), Fmul(sumX, sumX))

\* n * sumXY - sumX * sumY
PearsonNumerator(x, y) ==
    LET n == FromInt(Len(x))
        sumX == SumTo(x, Len(x))
        sumY == SumTo(y, Len(y))
        sumXY == SumProdTo(x, y, Len(x))
    IN  Fsub(Fmul(n, sumXY), Fmul(sumX, sumY))

\* n * sumX2 - sumX * sumX, the factor of the denominator that x gives; n is
\* the length of the first argument for both factors.
PearsonSpread(n, x) ==
    LET sumX == SumTo(x, Len(x))
        sumX2 == SumProdTo(x, x, Len(x))
    IN  Fsub(Fmul(n, sumX2), Fmul(sumX, sumX))

PearsonDenominator(x, y) ==
    LET n == FromInt(Len(x))
    IN  Fsqrt(Fmul(PearsonSpread(n, x), PearsonSpread(n, y)))

calculatePearsonCorrelation(x, y) ==
    LET numerator == PearsonNumerator(x, y)
        denominator == PearsonDenominator(x, y)
    IN  IF denominator = Zero THEN Zero ELSE Fdiv(numerator, denominator)

\* --- interpretCorrelation

\* The number a decimal literal num/den denotes (0.7 is 7/10): the nearest
\* representable one.
DecimalLiteral(num, den) == Fdiv(FromInt(num), FromInt(den))

\* Math.abs(r)
Fabs(r) == IF r.k = "nan" THEN NaN ELSE [r EXCEPT !.m = Abs(r.m)]

\* The literals 0.7, 0.4 and 0.2 of lines 259-261.
StrongFrom == DecimalLiteral(7, 10)

ModerateFrom == DecimalLiteral(4, 10)

WeakFrom == DecimalLiteral(2, 10)

\* absR >= threshold; false for NaN
AbsAtLeast(r, threshold) == r.k = "num" /\ Fcmp(Fabs(r), threshold) >= 0

\* r.toFixed(3), as a number of thousandths: the nearest one, the larger in
\* magnitude of two equally near.
ToFixed3(r) ==
    IF r.k = "nan" THEN "NaN"
    ELSE LET scaled == Abs(r.m) * 1000
             q == IF r.e >= 0 THEN scaled * 2^(r.e) ELSE scaled \div 2^(-r.e)
             rem == IF r.e >= 0 THEN 0 ELSE scaled % 2^(-r.e)
             up == r.e < 0 /\ 2 * rem >= 2^(-r.e)
         IN  Sign(r.m) * (IF up THEN q + 1 ELSE q)

\* A variant whose comparisons are > where the source has >=.
interpretCorrelation_StrictThresholds(r) ==
    LET above(threshold) == r.k = "num" /\ Fcmp(Fabs(r), threshold) > 0
        strength ==
            IF above(StrongFrom) THEN "strong"
            ELSE IF above(ModerateFrom) THEN "moderate"
            ELSE IF above(WeakFrom) THEN "weak"
            ELSE "very weak"
        direction == IF r.k = "num" /\ r.m < 0 THEN "negative" ELSE "positive"
    IN  [value |-> ToFixed3(r), strength |-> strength, direction |-> direction]

interpretCorrelation(r) ==
    LET strength ==
            IF AbsAtLeast(r, StrongFrom) THEN "strong"
            ELSE IF AbsAtLeast(r, ModerateFrom) THEN "moderate"
            ELSE IF AbsAtLeast(r, WeakFrom) THEN "weak"
            ELSE "very weak"
        direction == IF r.k = "num" /\ r.m < 0 THEN "negative" ELSE "positive"
    IN  [value |-> ToFixed3(r), strength |-> strength, direction |-> direction]

\* --- processGunLawCorrelation

getStatePolitics(state) ==
    IF includes(politicalClassifications.red, state) THEN "red"
    ELSE IF includes(politicalClassifications.blue, state) THEN "blue"
    ELSE IF includes(politicalClassifications.swing, state) THEN "swing"
    ELSE "unknown"

\* lawScore && population: both defined and neither 0
JoinCondition(scores, state) ==
    /\ state \in DOMAIN scores
    /\ scores[state] # 0
    /\ state \in DOMAIN statePopulations
    /\ statePopulations[state] # 0

CorrelationPoint(scores, stateData) ==
    [state |-> stateData.state,
     lawScore |-> scores[stateData.state],
     violenceRate |-> calculatePerCapita(stateData.incidents,
                                         statePopulations[stateData.state]),
     political |-> getStatePolitics(stateData.state)]

RECURSIVE CorrelationData(_, _, _)
CorrelationData(scores, stateBreakdown, i) ==
    IF i = 0 THEN <<>>
    ELSE LET before == CorrelationData(scores, stateBreakdown, i - 1)
         IN  IF JoinCondition(scores, stateBreakdown[i].state)
             THEN Append(before, CorrelationPoint(scores, stateBreakdown[i]))
             ELSE before

processGunLawCorrelation(gunLawData, gunViolenceData) ==
    LET correlationData ==
            CorrelationData(gunLawData.scores, gunViolenceData.stateBreakdown,
                            Len(gunViolenceData.stateBreakdown))
        correlation ==
            calculatePearsonCorrelation(
                [i \in 1..Len(correlationData) |-> FromInt(correlationData[i].lawScore)],
                [i \in 1..Len(correlationData) |-> ToNumber(correlationData[i].violenceRate)])
    IN  [data |-> correlationData,
         correlation |-> correlation,
         interpretation |-> interpretCorrelation(correlation)]

\* --- processMonthlyTrends

\* Incident counts are integers, and the two quotients the method rounds for
\* output (toFixed(1), Math.round) are rounded from their exact values: the
\* error of the machine quotient is below 2^-50 of its value, too small to move
\* it across a rounding boundary it is not exactly on.  A value exactly on the
\* boundary n.n5 of toFixed(1) needs a previous month that is a multiple of 16;
\* the inputs have none.
MonthlyNumber(v) == [k |-> "num", v |-> v]

MonthlyNaN == [k |-> "nan", v |-> 0]

MonthlyInfinity(sign) == [k |-> "inf", v |-> sign]

Max(a, b) == IF a > b THEN a ELSE b

\* (num / den * 100).toFixed(1) as a number of tenths, for den > 0: the nearest
\* tenth, the larger in magnitude of two equally near.
ToFixed1(num, den) == Sign(num) * ((2000 * Abs(num) + den) \div (2 * den))

\* A variant that divides by the current month.
growthRate_OverCurrentMonth(rawTrendData, i) ==
    IF i = 1 THEN MonthlyNumber(0)
    ELSE LET current == rawTrendData[i].incidents
             previousMonth == rawTrendData[i - 1].incidents
         IN  IF current = 0
             THEN IF previousMonth = 0 THEN MonthlyNaN
                  ELSE MonthlyInfinity(0 - Sign(previousMonth))
             ELSE MonthlyNumber(ToFixed1(current - previousMonth, current))

\* The growthRate of the i-th record (index i - 1), in tenths of a percent:
\* lines 206, 207 and 211.
growthRate(rawTrendData, i) ==
    IF i = 1 THEN MonthlyNumber(0)
    ELSE LET current == rawTrendData[i].incidents
             previousMonth == rawTrendData[i - 1].incidents
         IN  IF previousMonth = 0
             THEN IF current = 0 THEN MonthlyNaN
                  ELSE MonthlyInfinity(Sign(current))
             ELSE MonthlyNumber(ToFixed1(current - previousMonth, previousMonth))

\* window.reduce((sum, item) => sum + item.incidents, 0) over data[from..to]
RECURSIVE SumIncidents(_, _, _)
SumIncidents(data, from, to) ==
    IF to < from THEN 0
    ELSE SumIncidents(data, from, to - 1) + data[to].incidents

\* Math.round(total / count): NaN for 0/0, else the nearest integer, the larger
\* of two equally near (total >= 0).
RoundedAverage(total, count) ==
    IF count = 0 THEN MonthlyNaN
    ELSE MonthlyNumber((2 * total + count) \div (2 * count))

\* A variant whose window ends at the current month.
calculateMovingAverage_Trailing(data, currentIndex, windowSize) ==
    LET start == Max(0, currentIndex - windowSize + 1)
        end == Min(Len(data), currentIndex + 1)
    IN  RoundedAverage(SumIncidents(data, start + 1, end), end - start)

\* currentIndex, start and end count from 0 as in the source; slice(start, end)
\* is the elements start+1 .. end of the sequence.
calculateMovingAverage(data, currentIndex, windowSize) ==
    LET start == Max(0, currentIndex - windowSize \div 2)
        end == Min(Len(data), start + windowSize)
    IN  RoundedAverage(SumIncidents(data, start + 1, end), end - start)

\* ((secondAvg - firstAvg) / firstAvg) * 100; a division by 0 gives an infinity
\* of the dividend's sign, or NaN for 0/0.
percentChange(firstAvg, secondAvg) ==
    LET difference == Fsub(secondAvg, firstAvg)
    IN  IF firstAvg = Zero /\ difference.k = "num" /\ difference.m # 0
        THEN [k |-> "inf", m |-> Sign(difference.m), e |-> 0]
        ELSE Fmul(Fdiv(difference, firstAvg), FromInt(100))

\* a > n, for a number, an infinity or NaN a and an integer n
GreaterThan(a, n) ==
    \/ a.k = "inf" /\ a.m > 0
    \/ a.k = "num" /\ Fcmp(a, FromInt(n)) > 0

\* a < n
LessThan(a, n) ==
    \/ a.k = "inf" /\ a.m < 0
    \/ a.k = "num" /\ Fcmp(a, FromInt(n)) < 0

\* sum / length of a slice; NaN for the empty slice
Average(slice) == Fdiv(SumTo(slice, Len(slice)), FromInt(Len(slice)))

\* A variant without the test of line 287.
analyzeTrend_NoLengthTest(data) ==
    LET half == Len(data) \div 2
        firstHalf == SubSeq(data, 1, half)
        secondHalf == SubSeq(data, half + 1, Len(data))
        change == percentChange(Average(firstHalf), Average(secondHalf))
    IN  IF GreaterThan(change, 5) THEN "increasing"
        ELSE IF LessThan(change, -5) THEN "decreasing"
        ELSE "stable"

analyzeTrend(data) ==
    IF Len(data) < 2 THEN "insufficient data"
    ELSE LET half == Len(data) \div 2
             firstHalf == SubSeq(data, 1, half)
             secondHalf == SubSeq(data, half + 1, Len(data))
             firstAvg == Average(firstHalf)
             secondAvg == Average(secondHalf)
             change == percentChange(firstAvg, secondAvg)
         IN  IF GreaterThan(change, 5) THEN "increasing"
             ELSE IF LessThan(change, -5) THEN "decreasing"
             ELSE "stable"

processMonthlyTrends(rawTrendData) ==
    LET length == Len(rawTrendData)
        processed ==
            [i \in 1..length |->
                [month |-> rawTrendData[i].month,
                 incidents |-> rawTrendData[i].incidents,
                 growthRate |-> growthRate(rawTrendData, i),
                 movingAverage |-> calculateMovingAverage(rawTrendData, i - 1, 3)]]
        total == SumIncidents(rawTrendData, 1, length)
    IN  [data |-> processed,
         totalIncidents |-> total,
         averageMonthly |-> RoundedAverage(total, length),
         trend |-> analyzeTrend([i \in 1..length |-> FromInt(rawTrendData[i].incidents)])]

\* ---------------------------------------------------------- MultiNewsService

\* The free-tier limit that tryMediastack tests.
MediastackLimit == 100

\* The apis array of getArticles, by provider.
apis == <<"mediastack", "gnews", "newsdata", "nyt">>

Callers == 1..MaxCallers

AllProviders == {apis[i] : i \in 1..Len(apis)}

\* What the constructor's apiKeys argument holds: no key, the Mediastack key
\* only, every key but Mediastack's, or every key.
KeyConfigurations ==
    {{}, {"mediastack"}, AllProviders \ {"mediastack"}, AllProviders}

\* What an api call came to: nothing yet, null, an exception, or a list.
Unset == [k |-> "unset", list |-> <<>>]

Null == [k |-> "null", list |-> <<>>]

Threw == [k |-> "threw", list |-> <<>>]

List(list) == [k |-> "list", list |-> list]

\* A caller without a call: pc is where the call is, api the index (from 1) of
\* the provider of the current iteration, articles what its api call came to,
\* ret what getArticles returned.
NoCall == [pc |-> "idle", api |-> 0, articles |-> Unset, ret |-> Unset]

\* The article lists a provider's response is mapped to: none, or some.
Responses(provider) == {<<>>, <<[source |-> provider]>>}

\* A variant whose limit test is > where the source has >=.
refuses_LimitOffByOne(provider) ==
    \/ provider \notin apiKeys
    \/ provider = "mediastack" /\ requestCounts.mediastack > MediastackLimit

\* The test at the head of a provider: without a key, and for Mediastack at the
\* limit, it returns null and sends nothing.
refuses(provider) ==
    \/ provider \notin apiKeys
    \/ provider = "mediastack" /\ requestCounts.mediastack >= MediastackLimit

\* A variant that accepts every list, the empty one too.
usable_AnyList(articles) == articles.k = "list"

\* articles && articles.length > 0
usable(articles) == articles.k = "list" /\ Len(articles.list) > 0

\* The call after its api call resolved with articles: lines 26-28, and the next
\* iteration otherwise.
afterTry(call, articles) ==
    IF usable(articles)
    THEN [call EXCEPT !.pc = "returned", !.articles = articles, !.ret = articles]
    ELSE [call EXCEPT !.pc = "loop", !.api = @ + 1, !.articles = articles]

\* A variant without the try around the api call: the exception leaves
\* getArticles.
catch_Rethrows(call) == [call EXCEPT !.pc = "rejected", !.articles = Threw]

\* The call after its api call threw: lines 29-32.
catch(call) == [call EXCEPT !.pc = "loop", !.api = @ + 1, !.articles = Threw]

\* ---------------------------------------------------------------- APIHandlers

\* this.cacheExpiry, in milliseconds: 30 minutes.
cacheExpiry == 30 * 60 * 1000

\* The dashboard's loaders that share one APIHandlers object: the first load
\* and the periodic refresh.
Fetchers == {"load", "refresh"}

\* The value of an absent Map entry, of an unset local and of a call without a
\* result.
Undefined == [undefined |-> TRUE]

\* this.cache.get(key)
cacheGet(key) == IF key \in DOMAIN cache THEN cache[key] ELSE Undefined

\* The test of line 26 on the entry read at line 25.
servedFromCache(cached) ==
    cached # Undefined /\ now - cached.timestamp < cacheExpiry

\* getCacheStatus(): lines 338-347.
getCacheStatus ==
    [key \in DOMAIN cache |->
        [age |-> now - cache[key].timestamp,
         expired |-> now - cache[key].timestamp > cacheExpiry]]

NoFetch == [pc |-> "idle", key |-> "", cached |-> Undefined, error |-> "", ret |-> Undefined]

\* A variant of the catch block without the fallback to the entry read at the
\* start of the call.
fetchCatch_AlwaysThrows(call, error) ==
    [call EXCEPT !.pc = "threw", !.error = error,
                 !.ret = [k |-> "thrown", error |-> error]]

\* The catch block of fetchWithCache: lines 53-63.
fetchCatch(call, error) ==
    IF call.cached # Undefined
    THEN [call EXCEPT !.pc = "returned", !.error = error,
                      !.ret = [k |-> "data", data |-> call.cached.data]]
    ELSE [call EXCEPT !.pc = "threw", !.error = error,
                      !.ret = [k |-> "thrown", error |-> error]]

\* ---------------------------------------------------------------- NewsService

\* this.cacheDuration, in milliseconds: 1 hour.
cacheDuration == 3600000

\* The callers that share one NewsService object.
Readers == {"first", "second"}

\* A string is the sequence of its characters.
Whitespace == {" ", "\t"}

\* ch.toLowerCase(), on the letters of the queries.
LowerCase(ch) == IF ch = "A" THEN "a" ELSE IF ch = "B" THEN "b" ELSE ch

toLowerCase(s) == [i \in 1..Len(s) |-> LowerCase(s[i])]

\* s.replace(/\s+/g, '_'), on the first i characters of s: each maximal run of
\* whitespace becomes one underscore.
RECURSIVE ReplaceWhitespaceRuns(_, _)
ReplaceWhitespaceRuns(s, i) ==
    IF i = 0 THEN <<>>
    ELSE IF s[i] \notin Whitespace THEN Append(ReplaceWhitespaceRuns(s, i - 1), s[i])
    ELSE IF i > 1 /\ s[i - 1] \in Whitespace THEN ReplaceWhitespaceRuns(s, i - 1)
    ELSE Append(ReplaceWhitespaceRuns(s, i - 1), "_")

\* generateCacheKey(query): lines 76-78.
generateCacheKey(query) ==
    <<"news_">> \o ReplaceWhitespaceRuns(toLowerCase(query), Len(query))

\* The test of line 85 on the entry cached.
isExpired_AtDuration(cached) == now - cached.timestamp >= cacheDuration

isExpired(cached) == now - cached.timestamp > cacheDuration

\* getFromCache(key), lines 80-91: the value it returns, and the Map it leaves.
getFromCache(key) ==
    IF key \notin DOMAIN newsCache THEN Null
    ELSE IF isExpired(newsCache[key]) THEN Null
    ELSE List(newsCache[key].data)

afterGetFromCache(key) ==
    IF key \in DOMAIN newsCache /\ isExpired(newsCache[key])
    THEN [k \in DOMAIN newsCache \ {key} |-> newsCache[k]]
    ELSE newsCache

\* addToCache(key, data), lines 93-98: the Map it leaves.
addToCache(key, data) == (key :> [timestamp |-> now, data |-> data]) @@ newsCache

NoLookup ==
    [pc |-> "idle", searchQuery |-> <<>>, cacheKey |-> <<>>, cachedResult |-> Unset,
     response |-> Undefined, ret |-> Unset]

\* -------------------------------------------------------------- DataValidator

\* A JSON value, and undefined.
JsUndefined == [t |-> "undefined"]

JsonNull == [t |-> "null"]

Num(v) == [t |-> "number", n |-> v]

Str(v) == [t |-> "string", s |-> v]

Obj(fields) == [t |-> "object", fields |-> fields]

\* current?.[key]
Member(current, key) ==
    IF current.t = "object" /\ key \in DOMAIN current.fields
    THEN current.fields[key]
    ELSE JsUndefined

\* getNestedValue(obj, path), line 227, after the first i keys of the path.
RECURSIVE ReducePath(_, _, _)
ReducePath(obj, path, i) ==
    IF i = 0 THEN obj ELSE Member(ReducePath(obj, path, i - 1), path[i])

getNestedValue(obj, path) == ReducePath(obj, path, Len(path))

\* The value as a condition: undefined, null, 0 and "" are falsy.
Truthy(value) ==
    CASE value.t = "number" -> value.n # 0
      [] value.t = "string" -> value.s # ""
      [] value.t = "object" -> TRUE
      [] OTHER -> FALSE

\* typeof value
TypeOf(value) == IF value.t = "null" THEN "object" ELSE value.t

IsNullish(value) == value.t \in {"undefined", "null"}

\* this.validationRules: lines 16-29.
required_fields ==
    <<<<"gunViolenceByPolitics">>, <<"politicalViolenceBreakdown">>, <<"metadata">>>>

numeric_ranges ==
    <<[field |-> <<"gunViolenceByPolitics", "red", "rate">>, min |-> 0, max |-> 1000],
      [field |-> <<"gunViolenceByPolitics", "blue", "rate">>, min |-> 0, max |-> 1000],
      [field |-> <<"politicalViolenceBreakdown", "rightWingExtremism">>,
       min |-> 0, max |-> 10000],
      [field |-> <<"politicalViolenceBreakdown", "leftWingExtremism">>,
       min |-> 0, max |-> 10000]>>

data_freshness == 7 * 24 * 60 * 60 * 1000

\* typeChecks: lines 117-125.
typeChecks ==
    <<[path |-> <<"gunViolenceByPolitics", "red", "incidents">>, type |-> "number"],
      [path |-> <<"gunViolenceByPolitics", "blue", "incidents">>, type |-> "number"],
      [path |-> <<"gunViolenceByPolitics", "red", "rate">>, type |-> "number"],
      [path |-> <<"gunViolenceByPolitics", "blue", "rate">>, type |-> "number"],
      [path |-> <<"politicalViolenceBreakdown", "rightWingExtremism">>, type |-> "number"],
      [path |-> <<"politicalViolenceBreakdown", "leftWingExtremism">>, type |-> "number"],
      [path |-> <<"metadata", "processedAt">>, type |-> "string"]>>

\* The lists this.errors and this.warnings: log is [errors, warnings], and a
\* message is its text and the field or the value it names.
PushError(log, text, about) == [log EXCEPT !.errors = Append(@, <<text, about>>)]

PushWarning(log, text, about) == [log EXCEPT !.warnings = Append(@, <<text, about>>)]

\* validateStructure(data), lines 102-112, after the first i fields.
RECURSIVE validateStructureTo(_, _, _)
validateStructureTo(log, data, i) ==
    IF i = 0 THEN log
    ELSE LET before == validateStructureTo(log, data, i - 1)
             field == required_fields[i]
         IN  IF ~Truthy(getNestedValue(data, field))
             THEN PushError(before, "Missing required field", field)
             ELSE before

validateStructure(log, data) == validateStructureTo(log, data, Len(required_fields))

\* validateDataTypes(data), lines 114-138, after the first i checks.
RECURSIVE validateDataTypesTo(_, _, _)
validateDataTypesTo(log, data, i) ==
    IF i = 0 THEN log
    ELSE LET before == validateDataTypesTo(log, data, i - 1)
             check == typeChecks[i]
             value == getNestedValue(data, check.path)
         IN  IF ~IsNullish(value) /\ TypeOf(value) # check.type
             THEN PushError(before, "should be", check.path)
             ELSE before

validateDataTypes(log, data) == validateDataTypesTo(log, data, Len(typeChecks))

\* value < bound and value > bound with the value converted to a number: a
\* string that is no numeral, and an object, convert to NaN, which compares
\* false.
LessThanBound(value, bound) == value.t = "number" /\ value.n < bound

GreaterThanBound(value, bound) == value.t = "number" /\ value.n > bound

\* validateRanges(data), lines 140-154, after the first i fields.
RECURSIVE validateRangesTo(_, _, _)
validateRangesTo(log, data, i) ==
    IF i = 0 THEN log
    ELSE LET before == validateRangesTo(log, data, i - 1)
             range == numeric_ranges[i]
             value == getNestedValue(data, range.field)
         IN  IF ~IsNullish(value)
                /\ (LessThanBound(value, range.min) \/ GreaterThanBound(value, range.max))
             THEN PushWarning(before, "outside expected range", range.field)
             ELSE before

validateRanges(log, data) == validateRangesTo(log, data, Len(numeric_ranges))

\* The timestamps of the data files: the time each stands for, in milliseconds
\* of the clock.
KnownDates ==
    "1970-01-01T00:00:00.000Z" :> 0
    @@ "1969-12-25T00:00:00.000Z" :> 0 - data_freshness
    @@ "1969-12-24T23:59:59.999Z" :> 0 - data_freshness - 1

\* new Date(processedAt).getTime(): a number is a time, a string is parsed, and
\* what does not parse is an invalid date.
InvalidDate == [valid |-> FALSE, time |-> 0]

DateOf(processedAt) ==
    CASE processedAt.t = "number" -> [valid |-> TRUE, time |-> processedAt.n]
      [] processedAt.t = "string" /\ processedAt.s \in DOMAIN KnownDates
            -> [valid |-> TRUE, time |-> KnownDates[processedAt.s]]
      [] OTHER -> InvalidDate

\* validateFreshness(data): lines 156-176.
validateFreshness(log, data) ==
    LET processedAt == getNestedValue(data, <<"metadata", "processedAt">>)
        processedDate == DateOf(processedAt)
        age == now - processedDate.time
    IN  IF Truthy(processedAt)
        THEN IF ~processedDate.valid
             THEN PushError(log, "Invalid processedAt timestamp format", <<>>)
             ELSE IF age > data_freshness
             THEN PushWarning(log, "Data is days old", <<>>)
             ELSE log
        ELSE PushError(log, "Missing processedAt timestamp", <<>>)

\* Math.max(a, b) / Math.min(a, b) > 10 on two truthy values: false when one is
\* not a number; when the smaller one is negative the quotient is negative or
\* at most 1.
RatioAboveTen(a, b) ==
    /\ a.t = "number" /\ b.t = "number"
    /\ LET hi == IF a.n > b.n THEN a.n ELSE b.n
           lo == IF a.n > b.n THEN b.n ELSE a.n
       IN  lo > 0 /\ hi > 10 * lo

\* rightWing + leftWing === 0
SumIsZero(a, b) == a.t = "number" /\ b.t = "number" /\ a.n + b.n = 0

\* validateConsistency(data): lines 178-207.
validateConsistency(log, data) ==
    LET redRate == getNestedValue(data, <<"gunViolenceByPolitics", "red", "rate">>)
        blueRate == getNestedValue(data, <<"gunViolenceByPolitics", "blue", "rate">>)
        rightWing == getNestedValue(data, <<"politicalViolenceBreakdown", "rightWingExtremism">>)
        leftWing == getNestedValue(data, <<"politicalViolenceBreakdown", "leftWingExtremism">>)
        rates == IF Truthy(redRate) /\ Truthy(blueRate) /\ RatioAboveTen(redRate, blueRate)
                 THEN PushWarning(log, "Large rate difference", <<>>)
                 ELSE log
    IN  IF Truthy(rightWing) /\ Truthy(leftWing) /\ SumIsZero(rightWing, leftWing)
        THEN PushError(rates, "No political violence incidents recorded", <<>>)
        ELSE rates

\* The checks of validateAll on the loaded data: lines 46-50.
runChecks(log, data) ==
    validateConsistency(
        validateFreshness(
            validateRanges(
                validateDataTypes(
                    validateStructure(log, data), data), data), data), data)

\* The report object of generateReport: lines 253-258.
Report(log) ==
    [timestamp |-> now,
     status |-> IF Len(log.errors) > 0 THEN "failed" ELSE "passed",
     errors |-> log.errors,
     warnings |-> log.warnings]

\* A variant in which warnings fail the run too.
exitCodeAfterChecks_WarningsFail(log) ==
    IF Len(log.errors) > 0 THEN 1
    ELSE IF Len(log.warnings) > 0 THEN 1
    ELSE 0

\* The code validateAll exits with after the report: lines 56-65.
exitCodeAfterChecks(log) ==
    IF Len(log.errors) > 0 THEN 1
    ELSE IF Len(log.warnings) > 0 THEN 0
    ELSE 0

\* The content of a file: none, text that is not JSON, an empty file, or the
\* JSON text of a value.
Absent == [content |-> "absent"]

NotJson == [content |-> "not json"]

EmptyFile == [content |-> "empty"]

JsonText(value) == [content |-> "json", value |-> value]

\* -------------------------------------------------------------- DataCollector

\* getPoliticalClassifications(): the collector's copy of the three lists.
getPoliticalClassifications ==
    [red |-> <<"AL", "AK", "AR", "FL", "ID", "IN", "IA", "KS", "KY", "LA",
               "MS", "MO", "MT", "NE", "ND", "OH", "OK", "SC", "SD", "TN",
               "TX", "UT", "WV", "WY">>,
     blue |-> <<"CA", "CO", "CT", "DE", "HI", "IL", "ME", "MD", "MA", "MI",
                "MN", "NV", "NH", "NJ", "NM", "NY", "OR", "RI", "VT", "VA",
                "WA", "DC">>,
     swing |-> <<"AZ", "GA", "NC", "PA", "WI">>]

\* getMockCensusData().populations
MockCensusPopulations ==
    "AL" :> 5108468 @@ "AK" :> 733406 @@ "AZ" :> 7359197 @@ "AR" :> 3045637
    @@ "CA" :> 38965193 @@ "CO" :> 5895630 @@ "CT" :> 3626205 @@ "DE" :> 1003384
    @@ "FL" :> 22610726 @@ "GA" :> 10912876 @@ "HI" :> 1440196 @@ "ID" :> 1964726
    @@ "IL" :> 12620571 @@ "IN" :> 6833037 @@ "IA" :> 3207004 @@ "KS" :> 2940865
    @@ "KY" :> 4512310 @@ "LA" :> 4590241 @@ "ME" :> 1395722 @@ "MD" :> 6164660
    @@ "MA" :> 7001399 @@ "MI" :> 10037261 @@ "MN" :> 5737915 @@ "MS" :> 2940057
    @@ "MO" :> 6196994 @@ "MT" :> 1122069 @@ "NE" :> 1986765 @@ "NV" :> 3194176
    @@ "NH" :> 1402054 @@ "NJ" :> 9261699 @@ "NM" :> 2113344 @@ "NY" :> 19469232
    @@ "NC" :> 10835491 @@ "ND" :> 783926 @@ "OH" :> 11785935 @@ "OK" :> 4019800
    @@ "OR" :> 4233358 @@ "PA" :> 12972008 @@ "RI" :> 1095962 @@ "SC" :> 5282634
    @@ "SD" :> 909824 @@ "TN" :> 7126489 @@ "TX" :> 30503301 @@ "UT" :> 3380800
    @@ "VT" :> 647464 @@ "VA" :> 8715698 @@ "WA" :> 7812880 @@ "WV" :> 1775156
    @@ "WI" :> 5892539 @@ "WY" :> 581381

\* The results object after the forEach callback has run on stateData: lines
\* 467-482.
collectStateData(results, stateData, populations) ==
    LET state == stateData.state
        incidents == stateData.incidents
        population == IF state \in DOMAIN populations THEN populations[state] ELSE 0
    IN  IF includes(getPoliticalClassifications.red, state)
        THEN [results EXCEPT !.red = AddTo(@, incidents, population)]
        ELSE IF includes(getPoliticalClassifications.blue, state)
        THEN [results EXCEPT !.blue = AddTo(@, incidents, population)]
        ELSE IF includes(getPoliticalClassifications.swing, state)
        THEN [results EXCEPT !.swing = AddTo(@, incidents, population)]
        ELSE results

\* The results object after the first i records.
RECURSIVE CollectTo(_, _, _)
CollectTo(stateBreakdown, populations, i) ==
    IF i = 0 THEN [red |-> ZeroTotals, blue |-> ZeroTotals, swing |-> ZeroTotals]
    ELSE collectStateData(CollectTo(stateBreakdown, populations, i - 1),
                          stateBreakdown[i], populations)

\* (incidents / population) * 100000, as a rate: lines 485-487.
CollectorRate(incidents, population) ==
    IF population # 0
    THEN [k |-> "num", n |-> incidents, d |-> population, mult |-> 100000]
    ELSE IF incidents = 0 THEN RateNaN
    ELSE RateInfinity(Sign(incidents))

\* A variant with a slip of copying: the swing rate divides by the blue
\* population.
calculateGunViolenceByPolitics_SwingOverBlue(gunData, populations) ==
    LET results == CollectTo(gunData.stateBreakdown, populations,
                             Len(gunData.stateBreakdown))
    IN  [red |-> [incidents |-> results.red.incidents,
                  population |-> results.red.population,
                  rate |-> CollectorRate(results.red.incidents, results.red.population)],
         blue |-> [incidents |-> results.blue.incidents,
                   population |-> results.blue.population,
                   rate |-> CollectorRate(results.blue.incidents, results.blue.population)],
         swing |-> [incidents |-> results.swing.incidents,
                    population |-> results.swing.population,
                    rate |-> CollectorRate(results.swing.incidents,
                                           results.blue.population)]]

calculateGunViolenceByPolitics(gunData, populations) ==
    LET results == CollectTo(gunData.stateBreakdown, populations,
                             Len(gunData.stateBreakdown))
    IN  [red |-> [incidents |-> results.red.incidents,
                  population |-> results.red.population,
                  rate |-> CollectorRate(results.red.incidents, results.red.population)],
         blue |-> [incidents |-> results.blue.incidents,
                   population |-> results.blue.population,
                   rate |-> CollectorRate(results.blue.incidents, results.blue.population)],
         swing |-> [incidents |-> results.swing.incidents,
                    population |-> results.swing.population,
                    rate |-> CollectorRate(results.swing.incidents,
                                           results.swing.population)]]

\* --- analyzeIncidents

\* No analyzeIncidents call. newsArticles is the value that fetchNewsArticles
\* returned for the incident at index.
NoAnalysis ==
    [pc |-> "idle", incidents |-> <<>>, index |-> 0, analyzedIncidents |-> <<>>,
     newsArticles |-> Unset]

\* incident.analysis = value; analyzedIncidents.push(incident); and the for
\* loop goes to the next incident, or the method returns analyzedIncidents:
\* lines 685, 692-694, 700-704, 713.
pushAnalyzed(call, value) ==
    LET incident == call.incidents[call.index] @@ [analysis |-> value]
        pushed == Append(call.analyzedIncidents, incident)
    IN  IF call.index = Len(call.incidents)
        THEN [call EXCEPT !.analyzedIncidents = pushed, !.pc = "returned",
                          !.newsArticles = Unset]
        ELSE [call EXCEPT !.analyzedIncidents = pushed, !.pc = "fetchNewsArticles",
                          !.index = @ + 1, !.newsArticles = Unset]

\* A variant whose catch block logs the error and goes to the next incident
\* without keeping the one that failed.
analyzeCatch_DropsIncident(call, message) ==
    IF call.index = Len(call.incidents)
    THEN [call EXCEPT !.pc = "returned", !.newsArticles = Unset]
    ELSE [call EXCEPT !.pc = "fetchNewsArticles", !.index = @ + 1,
                      !.newsArticles = Unset]

\* The catch block of the loop body: lines 706-710.
analyzeCatch(call, message) ==
    pushAnalyzed(call, [type |-> "error", confidence |-> 0, error |-> message])

\* analyzeIncidents(incidents) up to its first await, or to its end: lines
\* 677-689, 713. The require of the classifier module and its constructor are
\* outside the try: when one throws (loads is FALSE), the call rejects.
analyzeIncidents(incidents, loads) ==
    IF ~loads THEN [NoAnalysis EXCEPT !.pc = "rejected", !.incidents = incidents]
    ELSE IF Len(incidents) = 0
    THEN [NoAnalysis EXCEPT !.pc = "returned"]
    ELSE [NoAnalysis EXCEPT !.pc = "fetchNewsArticles", !.incidents = incidents,
                            !.index = 1]

\* After await this.fetchNewsArticles(searchQuery): lines 689-699. The value is
\* a list, or undefined when the response had no articles and .length throws.
afterFetchNewsArticles(call, newsArticles) ==
    IF newsArticles = Unset
    THEN analyzeCatch(call, "Cannot read properties of undefined (reading 'length')")
    ELSE IF Len(newsArticles.list) = 0
    THEN pushAnalyzed(call, [type |-> "unknown", confidence |-> 0])
    ELSE [call EXCEPT !.pc = "batchAnalyzeArticles", !.newsArticles = newsArticles]

\* After await claude.batchAnalyzeArticles(newsArticles): lines 699-704. The
\* result is an object, or undefined and .classification throws.
afterBatchAnalyzeArticles(call, result) ==
    IF result = Undefined
    THEN analyzeCatch(call, "Cannot read properties of undefined (reading 'classification')")
    ELSE pushAnalyzed(call, [type |-> result.classification,
                             confidence |-> result.confidence])

\* --- collectCensusData, collectGVAData, collectRecentIncidents

\* No call of a collect method. locals holds the values that collectGVAData
\* has read from the pages so far.
NoCollect ==
    [method |-> "", pc |-> "idle", error |-> "", locals |-> <<>>, ret |-> Undefined]

\* getStateAbbreviation(fullName): lines 566-583; undefined for a name that is
\* not a state's.
getStateAbbreviation(fullName) ==
    CASE fullName = "Texas" -> "TX"
      [] fullName = "California" -> "CA"
      [] fullName = "Alaska" -> "AK"
      [] OTHER -> "undefined"

\* statePopulations after the forEach of lines 147-153 over the first i rows
\* of data.slice(1).
RECURSIVE CensusPopulationsTo(_, _)
CensusPopulationsTo(rows, i) ==
    IF i = 0 THEN <<>>
    ELSE LET before == CensusPopulationsTo(rows, i - 1)
             stateAbbr == getStateAbbreviation(rows[i].name)
         IN  IF stateAbbr = "undefined" THEN before
             ELSE (stateAbbr :> rows[i].population) @@ before

\* getMockCensusData(): lines 585-606.
getMockCensusData ==
    [populations |-> MockCensusPopulations, source |-> "Mock Census Data", year |-> 2023]

\* The catch block of collectCensusData: lines 161-165.
censusCatch(call, error) ==
    [call EXCEPT !.pc = "resolved", !.error = error, !.ret = getMockCensusData]

\* collectCensusData() up to its await: lines 141-144.
collectCensusData == [NoCollect EXCEPT !.method = "collectCensusData", !.pc = "fetchJSON"]

\* After await this.fetchJSON(url): lines 144-160. The body is the array of
\* rows under a header row, or a JSON value without slice.
afterFetchJSON(call, data) ==
    IF data.k # "array" THEN censusCatch(call, "data.slice is not a function")
    ELSE LET rows == SubSeq(data.rows, 2, Len(data.rows))
         IN  [call EXCEPT !.pc = "resolved",
                          !.ret = [populations |-> CensusPopulationsTo(rows, Len(rows)),
                                   source |-> "US Census Bureau", year |-> 2023]]

\* Math.floor(base * yearProgress * 1.03) with yearProgress = daysIntoYear / 365:
\* lines 260-270, 295. For every day of a year and every base of the method the
\* double result is this integer.
Estimate(base, daysIntoYear) == (base * daysIntoYear * 103) \div 36500

baseData ==
    <<[state |-> "TX", base |-> 4234], [state |-> "CA", base |-> 3892],
      [state |-> "FL", base |-> 3456], [state |-> "IL", base |-> 2845],
      [state |-> "PA", base |-> 2456], [state |-> "OH", base |-> 2234],
      [state |-> "GA", base |-> 2134], [state |-> "NC", base |-> 1987],
      [state |-> "MI", base |-> 1876], [state |-> "AZ", base |-> 1765]>>

\* getFallbackStateData(yearProgress): lines 279-297.
getFallbackStateData(daysIntoYear) ==
    [i \in 1..Len(baseData) |->
        [state |-> baseData[i].state,
         incidents |-> Estimate(baseData[i].base, daysIntoYear)]]

\* A variant whose catch block logs the error and throws it again.
gvaCatch_Rethrows(call, error, daysIntoYear) ==
    [call EXCEPT !.pc = "rejected", !.error = error]

\* The catch block of collectGVAData: lines 254-276.
gvaCatch(call, error, daysIntoYear) ==
    [call EXCEPT !.pc = "resolved", !.error = error,
                 !.ret = [totalIncidents |-> Estimate(48247, daysIntoYear),
                          massShootings |-> Estimate(693, daysIntoYear),
                          deaths |-> Estimate(15208, daysIntoYear),
                          injuries |-> Estimate(33039, daysIntoYear),
                          stateBreakdown |-> getFallbackStateData(daysIntoYear),
                          source |-> "Gun Violence Archive (Estimated)",
                          methodology |-> "Estimated based on historical trends"]]

\* collectGVAData() up to its first await: lines 168-193.
collectGVAData ==
    [NoCollect EXCEPT !.method = "collectGVAData", !.pc = "total-number-of-incidents"]

\* After one of the four awaited axios.get of collectGVAData: lines 189-252.
\* page is the response: its status, whether it has an element of class
\* statistical-count, the number read from it (on the casualties page the
\* deaths, and the injuries), the rows of the state table.
afterGvaPage(call, page, daysIntoYear) ==
    CASE call.pc = "total-number-of-incidents" ->
            IF page.status = 403
            THEN gvaCatch(call, "Access blocked by GVA. Using fallback data.", daysIntoYear)
            ELSE IF ~page.hasCount
            THEN gvaCatch(call, "this.getEstimatedIncidents is not a function", daysIntoYear)
            ELSE [call EXCEPT !.pc = "mass-shootings",
                              !.locals = [totalIncidents |-> page.count]]
      [] call.pc = "mass-shootings" ->
            [call EXCEPT !.pc = "casualties",
                         !.locals = @ @@ [massShootings |->
                                             IF page.hasCount THEN page.count ELSE 0]]
      [] call.pc = "casualties" ->
            [call EXCEPT !.pc = "state-rankings",
                         !.locals = @ @@ [deaths |-> IF page.hasCount THEN page.count ELSE 0,
                                          injuries |-> IF page.hasCount THEN page.injuries ELSE 0]]
      [] call.pc = "state-rankings" ->
            [call EXCEPT !.pc = "resolved", !.locals = <<>>,
                         !.ret = call.locals
                                 @@ [stateBreakdown |-> page.rows,
                                     source |-> "Gun Violence Archive (Live Data)",
                                     methodology |-> "Real-time data from GVA website scraping"]]

\* collectRecentIncidents() up to its first await: lines 608-624.
collectRecentIncidents ==
    [NoCollect EXCEPT !.method = "collectRecentIncidents", !.pc = "last-72-hours"]

\* The catch block of collectRecentIncidents: lines 665-674.
recentCatch(call, error) ==
    [call EXCEPT !.pc = "resolved", !.error = error,
                 !.ret = [incidents |-> <<>>, source |-> "Gun Violence Archive",
                          timeframe |-> "72 hours", error |-> error]]

\* After await this.analyzeIncidents(incidents): lines 656-663, or the catch
\* block when the call rejected.
afterAnalyzeIncidents(call, analyzed) ==
    IF analyzed.pc = "rejected"
    THEN recentCatch(call, "Cannot find module '../js/claude-service'")
    ELSE [call EXCEPT !.pc = "resolved",
                      !.ret = [incidents |-> analyzed.analyzedIncidents,
                               source |-> "Gun Violence Archive",
                               timeframe |-> "72 hours"]]

\* --- collectAllData

\* No collectAllData call. successful is results.successful, data is
\* results.data, saved lists the files that the call has logged as saved (lines
\* 411, 558, 563).
NoRun ==
    [pc |-> "idle", successful |-> <<>>, data |-> <<>>, processed |-> Undefined,
     saved |-> <<>>, error |-> ""]

\* collectPoliticalViolenceData(): lines 299-327.
collectPoliticalViolenceData ==
    [rightWingExtremism |-> 315, leftWingExtremism |-> 47, islamistExtremism |-> 34,
     otherIdeology |-> 23]

\* collectGunLawData(): lines 329-365, the scores of the states of baseData.
collectGunLawData ==
    [scores |-> [TX |-> 20, CA |-> 85, FL |-> 32, IL |-> 65, PA |-> 38, OH |-> 28,
                 GA |-> 22, NC |-> 35, MI |-> 40, AZ |-> 25]]

\* collectMonthlyTrends(currentYear) in January: lines 367-389. incidents is
\* what Math.round made of 3500 and the random term.
collectMonthlyTrends(currentYear, incidents) ==
    [data |-> <<[month |-> "Jan", year |-> currentYear, incidents |-> incidents]>>,
     source |-> "Mock Data (placeholder for time-series scraping)"]

\* processData(rawData): lines 414-447, at the time processedAt. The fields
\* gunLawCorrelation and massShootingsByPolitics are further derived tables.
processData(rawData, processedAt) ==
    [metadata |-> [processedAt |-> processedAt, version |-> "1.1",
                   year |-> rawData.year],
     gunViolenceSummary |-> rawData.gunViolence,
     politicalViolenceBreakdown |-> rawData.politicalViolence,
     monthlyTrends |-> rawData.monthlyTrends,
     gunViolenceByPolitics |->
        calculateGunViolenceByPolitics(rawData.gunViolence, rawData.census.populations)]

\* The six sources in the order of collectAllData: lines 87-119.
Sources ==
    <<"census", "gunViolence", "politicalViolence", "gunLaws", "monthlyTrends",
      "recentIncidents">>

\* results.data.x = value; results.successful.push(x): lines 88-89 and alike.
pushSuccessful(call, source, value) ==
    [call EXCEPT !.data = (source :> value) @@ @, !.successful = Append(@, source)]

\* A variant of the catch block that logs the error and returns normally.
runCatch_Swallows(call, error) ==
    [call EXCEPT !.pc = "returned", !.error = error]

\* The catch block of collectAllData: lines 135-138.
runCatch(call, error) ==
    [call EXCEPT !.pc = "rejected", !.error = error]

\* ------------------------------------------------------------------ inputs

\* A red, a blue and a swing state, a classified state without a population
\* entry, and a code that is in no table.
InputStates == {"TX", "CA", "AZ", "DC", "ZZ"}

InputIncidents == {0, 3892, 4234}

SeqsUpTo(S, n) == UNION {[1..k -> S] : k \in 0..n}

StateRecords(incidents) == [state : InputStates, incidents : incidents]

RawDataInputs == [stateBreakdown : SeqsUpTo(StateRecords(InputIncidents), MaxRecords)]

GunViolenceInputs == [stateBreakdown : SeqsUpTo(StateRecords({0, 4234}), MaxPoints)]

\* Score tables over some of the states; scores are numbers in [0, 100].
LawScoreStates == {"TX", "CA", "DC"}

GunLawInputs == [scores : UNION {[S -> {0, 1, 3}] : S \in SUBSET LawScoreStates}]

\* The elements of the series: numbers that FloatBits bits represent exactly.
SeriesValues == {FromInt(v) : v \in {0, 2, 3, 7}}

SeriesInputs ==
    UNION {[x : [1..k -> SeriesValues], y : [1..k -> SeriesValues]] : k \in 0..MaxSeries}

\* The numbers handed to interpretCorrelation: a grid around the thresholds,
\* the three thresholds themselves, and NaN.
CoefficientInputs ==
    {Canon(m, e) : m \in (1 - 2^FloatBits)..(2^FloatBits - 1), e \in (0 - MaxScale)..0}
    \cup {StrongFrom, ModerateFrom, WeakFrom}
    \cup {Fneg(StrongFrom), Fneg(ModerateFrom), Fneg(WeakFrom)}
    \cup {NaN}

\* The month labels of lines 201-202, for the records in calendar order.
months == <<"Jan", "Feb", "Mar", "Apr", "May", "Jun",
            "Jul", "Aug", "Sep", "Oct", "Nov", "Dec">>

\* A month without incidents, and the counts of the documented examples.
MonthlyIncidents == {0, 5, 100, 120, 150}

\* The lists of monthly counts, and the records that carry them.
MonthlyInputs == SeqsUpTo(MonthlyIncidents, MaxMonths)

MonthlyRecords(incidents) ==
    [i \in 1..Len(incidents) |-> [month |-> months[i], incidents |-> incidents[i]]]

\* The series handed to analyzeTrend: small counts that FloatBits bits hold.
TrendValues == {FromInt(v) : v \in {0, 5, 6, 7}}

TrendInputs == SeqsUpTo(TrendValues, MaxTrend)

\* Population tables: the census table, a table with an empty state, a state
\* that is in no list and no entry for the swing state, and no table at all.
PopulationTables ==
    {MockCensusPopulations,
     "TX" :> 30503301 @@ "CA" :> 0 @@ "ZZ" :> 733406,
     <<>>}

\* The cache key of one of the dashboard's data sources.
FetchKeys == {"gun_violence"}

\* The bodies a source answers with.
Payloads == {"body1", "body2"}

\* The clock advances by half an hour, so that an entry is seen before, at and
\* after the age cacheExpiry and the age cacheDuration.
ClockStep == cacheExpiry

\* Search queries: three that differ in letter case and in their runs of
\* whitespace, one that differs from them in a letter, and one with an
\* underscore where the others have whitespace.
SearchQueries ==
    {<<"a", " ", "b">>, <<"A", " ", "\t", "B">>, <<"a", "\t", "b">>,
     <<"a", " ", "c">>, <<"a", "_", "b">>}

\* response.articles: no article, or one.
ArticleLists == {<<>>, <<"article">>}

\* The files of the data directory.
FileNames == {"raw-data.json", "processed-data.json", "latest.json", "validation-report.json"}

\* gunViolenceByPolitics of latest.json: rates in and out of range, a rate that
\* JSON.stringify wrote as null, a rate and a count that are strings, rates
\* that differ by more than the factor 10; or no such field.
GunViolenceFields ==
    {Obj([red |-> Obj([incidents |-> incidents, rate |-> redRate]),
          blue |-> Obj([incidents |-> Num(7), rate |-> blueRate])]) :
        incidents \in {Num(5), Str("5")},
        redRate \in {Num(4), Num(2000), JsonNull, Str("n/a")},
        blueRate \in {Num(4), Num(50)}}
    \cup {JsUndefined}

\* politicalViolenceBreakdown: counts in and out of range, counts that add up
\* to 0, a count that is missing.
PoliticalViolenceFields ==
    {Obj([leftWingExtremism |-> leftWing] @@ rightWing) :
        leftWing \in {Num(47), Num(-315)},
        rightWing \in {[rightWingExtremism |-> Num(315)],
                       [rightWingExtremism |-> Num(20000)],
                       <<>>}}

\* metadata: processedAt now, 7 days ago, more than 7 days ago, a text that is
\* no date, a number, no processedAt; or no metadata.
MetadataFields ==
    {Obj([processedAt |-> processedAt]) :
        processedAt \in {Str("1970-01-01T00:00:00.000Z"), Str("1969-12-25T00:00:00.000Z"),
                         Str("1969-12-24T23:59:59.999Z"), Str("yesterday"), Num(0)}}
    \cup {Obj(<<>>), JsUndefined}

\* The field name :> value of an object, or no field for undefined.
Field(name, value) == IF value = JsUndefined THEN <<>> ELSE name :> value

\* What the validator finds as latest.json.
LatestFiles ==
    {JsonText(Obj(Field("gunViolenceByPolitics", gunViolence)
                  @@ Field("politicalViolenceBreakdown", politicalViolence)
                  @@ Field("metadata", metadata))) :
        gunViolence \in GunViolenceFields,
        politicalViolence \in PoliticalViolenceFields,
        metadata \in MetadataFields}
    \cup {Absent, NotJson}

\* The incidents that collectRecentIncidents reads from the page: lists of up
\* to MaxIncidents rows with an id.
IncidentIds == {"3301", "3302"}

IncidentLists == SeqsUpTo({[id |-> id] : id \in IncidentIds}, MaxIncidents)

\* What fetchNewsArticles resolves with: no article (or the request failed and
\* its catch returned []), articles, or undefined.
NewsResults == {List(<<>>), List(<<"article">>), Unset}

\* What batchAnalyzeArticles resolves with.
ClassifierResults == {[classification |-> "political", confidence |-> 90], Undefined}

\* The bodies of the census response: an array of rows under a header row, with
\* a row that is no state's; an array with the header only; an empty array; a
\* JSON object.
CensusBodies ==
    {[k |-> "array", rows |-> rows] :
        rows \in {<<[population |-> 0, name |-> "NAME"],
                    [population |-> 30503301, name |-> "Texas"],
                    [population |-> 3205691, name |-> "Puerto Rico"],
                    [population |-> 38965193, name |-> "California"]>>,
                  <<[population |-> 0, name |-> "NAME"]>>,
                  <<>>}}
    \cup {[k |-> "object", rows |-> <<>>]}

\* The day of the year on which the collector runs.
DaysIntoYear == {100, 308}

\* The pages of the archive.
GvaPages ==
    [status : {200, 403}, hasCount : BOOLEAN, count : {512}, injuries : {1024},
     rows : {<<>>, <<[state |-> "TX", incidents |-> 4234],
                     [state |-> "CA", incidents |-> 3892]>>}]

\* What Math.round makes of the random incidents of a month.
TrendIncidents == {3500}

\* latest.json as an earlier collection left it, or no file.
EarlierFiles ==
    {Absent,
     JsonText([metadata |-> [processedAt |-> 0, version |-> "1.1", year |-> 2025]])}

\* ----------------------------------------------------------------- actions

NoValue == [none |-> TRUE]

\* new DataProcessor(): lines 7-37.
ConstructDataProcessor ==
    /\ statePopulations = ConstructorPopulations
    /\ politicalClassifications = ConstructorClassifications
    /\ pc = "idle"
    /\ locals = NoLocals
    /\ op = "none"
    /\ args = NoValue
    /\ ret = NoValue

\* new MultiNewsService(apiKeys), for the set keys of providers that apiKeys has
\* a key for.
ConstructMultiNewsService(keys) ==
    /\ apiKeys = keys
    /\ requestCounts = [mediastack |-> 0, gnews |-> 0, newsdata |-> 0, nyt |-> 0]
    /\ calls = [c \in Callers |-> NoCall]
    /\ mediastackRequests = 0

\* The other objects of the pipeline, as their constructors leave them.
\* new APIHandlers(): lines 7-18.
ConstructAPIHandlers ==
    /\ cache = <<>>
    /\ fetches = [f \in Fetchers |-> NoFetch]
    /\ network = {}

\* new NewsService(apiKey): lines 5-9.
ConstructNewsService ==
    /\ newsCache = <<>>
    /\ lookups = [r \in Readers |-> NoLookup]
    /\ apiCalls = {}

\* new DataValidator(): lines 12-33.
ConstructDataValidator ==
    /\ validatorPc = "constructed"
    /\ errors = <<>>
    /\ warnings = <<>>
    /\ exit = Undefined
    /\ caught = Undefined
    /\ reportWrite = Undefined

\* new DataCollector(): lines 17-49. No call of it has started.
ConstructDataCollector ==
    /\ collect = NoCollect
    /\ analysis = NoAnalysis
    /\ run = NoRun

ConstructObjects ==
    /\ now = 0
    /\ ConstructAPIHandlers
    /\ ConstructNewsService
    /\ ConstructDataValidator
    /\ ConstructDataCollector

\* The objects, and a data directory without files.
ConstructPipeline ==
    /\ ConstructObjects
    /\ files = [name \in FileNames |-> Absent]

\* The start of the validator's runs: latest.json is as an earlier collection
\* left it.
InitValidator ==
    /\ ConstructDataProcessor
    /\ ConstructMultiNewsService({})
    /\ ConstructObjects
    /\ \E latest \in LatestFiles :
        files = [name \in FileNames |-> IF name = "latest.json" THEN latest ELSE Absent]

Init ==
    /\ ConstructDataProcessor
    /\ \E keys \in KeyConfigurations : ConstructMultiNewsService(keys)
    /\ ConstructPipeline

\* The start of the runs that call the processor only: the news service is
\* there, without a key, and is not called.
InitProcessor ==
    /\ ConstructDataProcessor
    /\ ConstructMultiNewsService({})
    /\ ConstructPipeline

\* The start of the runs that compare the collector with a processor whose
\* population table is P: statePopulations is a plain field, and the dashboard
\* may load another table into it.
InitEquivalence ==
    /\ statePopulations \in PopulationTables
    /\ politicalClassifications = ConstructorClassifications
    /\ pc = "idle"
    /\ locals = NoLocals
    /\ op = "none"
    /\ args = NoValue
    /\ ret = NoValue
    /\ ConstructMultiNewsService({})
    /\ ConstructPipeline

\* processGunViolenceByPolitics(rawData) is entered: lines 50-52.
CallProcessGunViolenceByPolitics ==
    /\ pc = "idle"
    /\ op = "none"
    /\ \E rawData \in RawDataInputs :
        /\ op' = "processGunViolenceByPolitics"
        /\ args' = rawData
    /\ ret' = NoValue
    /\ locals' = [NoLocals EXCEPT !.index = 1]
    /\ pc' = "forEach"
    /\ UNCHANGED <<statePopulations, politicalClassifications>>
    /\ UNCHANGED <<serviceVars, pipelineVars>>

\* A variant of the callback that stores the population it looked up, the
\* default 0 included, in the table.
ForEachStateData_StoresDefault ==
    /\ pc = "forEach"
    /\ locals.index <= Len(args.stateBreakdown)
    /\ locals' = [accumulateStateData(locals, args.stateBreakdown[locals.index])
                    EXCEPT !.index = locals.index + 1]
    /\ statePopulations' =
            LET state == args.stateBreakdown[locals.index].state
            IN  IF state \in DOMAIN statePopulations THEN statePopulations
                ELSE (state :> 0) @@ statePopulations
    /\ UNCHANGED <<politicalClassifications, pc, op, args, ret>>
    /\ UNCHANGED <<serviceVars, pipelineVars>>

\* One call of the forEach callback: lines 54-69.
ForEachStateData ==
    /\ pc = "forEach"
    /\ locals.index <= Len(args.stateBreakdown)
    /\ locals' = [accumulateStateData(locals, args.stateBreakdown[locals.index])
                    EXCEPT !.index = locals.index + 1]
    /\ UNCHANGED <<statePopulations, politicalClassifications, pc, op, args, ret>>
    /\ UNCHANGED <<serviceVars, pipelineVars>>

\* The return statement: lines 71-84.
ReturnProcessGunViolenceByPolitics ==
    /\ pc = "forEach"
    /\ locals.index > Len(args.stateBreakdown)
    /\ ret' = GunViolenceResult(locals)
    /\ locals' = NoLocals
    /\ pc' = "idle"
    /\ UNCHANGED <<statePopulations, politicalClassifications, op, args>>
    /\ UNCHANGED <<serviceVars, pipelineVars>>

ProcessGunLawCorrelation ==
    /\ pc = "idle"
    /\ op = "none"
    /\ \E gunLawData \in GunLawInputs, gunViolenceData \in GunViolenceInputs :
        /\ op' = "processGunLawCorrelation"
        /\ args' = [gunLawData |-> gunLawData, gunViolenceData |-> gunViolenceData]
        /\ ret' = processGunLawCorrelation(gunLawData, gunViolenceData)
    /\ UNCHANGED <<statePopulations, politicalClassifications, pc, locals>>
    /\ UNCHANGED <<serviceVars, pipelineVars>>

CalculatePearsonCorrelation ==
    /\ pc = "idle"
    /\ op = "none"
    /\ \E in \in SeriesInputs :
        /\ op' = "calculatePearsonCorrelation"
        /\ args' = in
        /\ ret' = calculatePearsonCorrelation(in.x, in.y)
    /\ UNCHANGED <<statePopulations, politicalClassifications, pc, locals>>
    /\ UNCHANGED <<serviceVars, pipelineVars>>

InterpretCorrelation ==
    /\ pc = "idle"
    /\ op = "none"
    /\ \E r \in CoefficientInputs :
        /\ op' = "interpretCorrelation"
        /\ args' = [r |-> r]
        /\ ret' = interpretCorrelation(r)
    /\ UNCHANGED <<statePopulations, politicalClassifications, pc, locals>>
    /\ UNCHANGED <<serviceVars, pipelineVars>>

ProcessMonthlyTrends ==
    /\ pc = "idle"
    /\ op = "none"
    /\ \E incidents \in MonthlyInputs :
        /\ op' = "processMonthlyTrends"
        /\ args' = [rawTrendData |-> MonthlyRecords(incidents)]
        /\ ret' = processMonthlyTrends(MonthlyRecords(incidents))
    /\ UNCHANGED <<statePopulations, politicalClassifications, pc, locals>>
    /\ UNCHANGED <<serviceVars, pipelineVars>>

AnalyzeTrend ==
    /\ pc = "idle"
    /\ op = "none"
    /\ \E data \in TrendInputs :
        /\ op' = "analyzeTrend"
        /\ args' = [data |-> data]
        /\ ret' = analyzeTrend(data)
    /\ UNCHANGED <<statePopulations, politicalClassifications, pc, locals>>
    /\ UNCHANGED <<serviceVars, pipelineVars>>

\* The caller is done with the returned value and is ready for its next call.
Forget ==
    /\ pc = "idle"
    /\ op # "none"
    /\ op' = "none"
    /\ args' = NoValue
    /\ ret' = NoValue
    /\ UNCHANGED <<statePopulations, politicalClassifications, pc, locals>>
    /\ UNCHANGED <<serviceVars, pipelineVars>>

\* --- MultiNewsService

\* getArticles(searchQuery) is called: lines 14-23.
GetArticles(c) ==
    /\ calls[c].pc = "idle"
    /\ calls' = [calls EXCEPT ![c] = [NoCall EXCEPT !.pc = "loop", !.api = 1]]
    /\ UNCHANGED <<apiKeys, requestCounts, mediastackRequests>>
    /\ UNCHANGED <<processorVars, pipelineVars>>

\* The provider of this iteration returns null: lines 39-41, 67-69, 94-96 and
\* 120-122.
ProviderRefuses(c) ==
    /\ calls[c].pc = "loop"
    /\ calls[c].api <= Len(apis)
    /\ refuses(apis[calls[c].api])
    /\ calls' = [calls EXCEPT ![c] = afterTry(calls[c], Null)]
    /\ UNCHANGED <<apiKeys, requestCounts, mediastackRequests>>
    /\ UNCHANGED <<processorVars, pipelineVars>>

\* The provider of this iteration sends its request and the call waits for the
\* response: lines 43-44, 71, 98 and 126.  Test, increment and axios.get run
\* without an await between them.
ProviderSendsRequest(c) ==
    /\ calls[c].pc = "loop"
    /\ calls[c].api <= Len(apis)
    /\ ~refuses(apis[calls[c].api])
    /\ calls' = [calls EXCEPT ![c] = [@ EXCEPT !.pc = "request", !.articles = Unset]]
    /\ IF apis[calls[c].api] = "mediastack"
       THEN /\ requestCounts' = [requestCounts EXCEPT !.mediastack = @ + 1]
            /\ mediastackRequests' = mediastackRequests + 1
       ELSE UNCHANGED <<requestCounts, mediastackRequests>>
    /\ UNCHANGED apiKeys
    /\ UNCHANGED <<processorVars, pipelineVars>>

\* The response arrives and is mapped to a list of articles.
ResponseArrives(c) ==
    /\ calls[c].pc = "request"
    /\ \E list \in Responses(apis[calls[c].api]) :
        calls' = [calls EXCEPT ![c] = afterTry(calls[c], List(list))]
    /\ UNCHANGED <<apiKeys, requestCounts, mediastackRequests>>
    /\ UNCHANGED <<processorVars, pipelineVars>>

\* The request fails, or its response has not the shape the mapping reads: the
\* provider throws.  tryNYT catches it and sends its second request (lines
\* 144-146).
RequestFails(c) ==
    /\ calls[c].pc = "request"
    /\ calls' = [calls EXCEPT ![c] =
                    IF apis[calls[c].api] = "nyt"
                    THEN [@ EXCEPT !.pc = "fallback"]
                    ELSE catch(@)]
    /\ UNCHANGED <<apiKeys, requestCounts, mediastackRequests>>
    /\ UNCHANGED <<processorVars, pipelineVars>>

\* The response of the Most Popular request arrives: lines 152-164.
FallbackArrives(c) ==
    /\ calls[c].pc = "fallback"
    /\ \E list \in Responses(apis[calls[c].api]) :
        calls' = [calls EXCEPT ![c] = afterTry(calls[c], List(list))]
    /\ UNCHANGED <<apiKeys, requestCounts, mediastackRequests>>
    /\ UNCHANGED <<processorVars, pipelineVars>>

\* The Most Popular request fails too: tryNYT throws.
FallbackFails(c) ==
    /\ calls[c].pc = "fallback"
    /\ calls' = [calls EXCEPT ![c] = catch(@)]
    /\ UNCHANGED <<apiKeys, requestCounts, mediastackRequests>>
    /\ UNCHANGED <<processorVars, pipelineVars>>

\* The loop is over: line 35.
ReturnNoArticles(c) ==
    /\ calls[c].pc = "loop"
    /\ calls[c].api > Len(apis)
    /\ calls' = [calls EXCEPT ![c] = [@ EXCEPT !.pc = "returned", !.ret = List(<<>>)]]
    /\ UNCHANGED <<apiKeys, requestCounts, mediastackRequests>>
    /\ UNCHANGED <<processorVars, pipelineVars>>

\* The caller has its articles and is ready for its next call.
CallerContinues(c) ==
    /\ calls[c].pc = "returned"
    /\ calls' = [calls EXCEPT ![c] = NoCall]
    /\ UNCHANGED <<apiKeys, requestCounts, mediastackRequests>>
    /\ UNCHANGED <<processorVars, pipelineVars>>

NextService ==
    \E c \in Callers :
        \/ GetArticles(c)
        \/ ProviderRefuses(c)
        \/ ProviderSendsRequest(c)
        \/ ResponseArrives(c)
        \/ RequestFails(c)
        \/ FallbackArrives(c)
        \/ FallbackFails(c)
        \/ ReturnNoArticles(c)
        \/ CallerContinues(c)

SpecService == Init /\ [][NextService]_vars

\* --- APIHandlers

\* Date.now() has advanced.
Tick ==
    /\ now + ClockStep <= MaxHours * 60 * 60 * 1000
    /\ now' = now + ClockStep
    /\ UNCHANGED exceptClock

\* fetchWithCache(key, url) is called: lines 23-38.  A fresh entry is returned;
\* otherwise the request is sent and the call waits for the response.
FetchWithCache(f) ==
    /\ fetches[f].pc = "idle"
    /\ \E key \in FetchKeys :
        LET cached == cacheGet(key)
            call == [NoFetch EXCEPT !.key = key, !.cached = cached]
        IN  IF servedFromCache(cached)
            THEN /\ fetches' = [fetches EXCEPT ![f] =
                        [call EXCEPT !.pc = "returned",
                                     !.ret = [k |-> "data", data |-> cached.data]]]
                 /\ UNCHANGED network
            ELSE /\ fetches' = [fetches EXCEPT ![f] = [call EXCEPT !.pc = "fetch"]]
                 /\ network' = network \cup {f}
    /\ UNCHANGED <<now, cache>>
    /\ UNCHANGED exceptHandlers

\* The response arrives with an OK status: lines 31-44, up to the await of
\* response.json().
ResponseOk(f) ==
    /\ fetches[f].pc = "fetch"
    /\ fetches' = [fetches EXCEPT ![f].pc = "json"]
    /\ network' = network \ {f}
    /\ UNCHANGED <<now, cache>>
    /\ UNCHANGED exceptHandlers

\* fetch rejects: the network failed.
FetchRejects(f) ==
    /\ fetches[f].pc = "fetch"
    /\ fetches' = [fetches EXCEPT ![f] = fetchCatch(@, "network")]
    /\ network' = network \ {f}
    /\ UNCHANGED <<now, cache>>
    /\ UNCHANGED exceptHandlers

\* The response arrives with a status that is not OK: lines 40-42.
ResponseNotOk(f) ==
    /\ fetches[f].pc = "fetch"
    /\ fetches' = [fetches EXCEPT ![f] = fetchCatch(@, "http")]
    /\ network' = network \ {f}
    /\ UNCHANGED <<now, cache>>
    /\ UNCHANGED exceptHandlers

\* response.json() resolves: the result is cached and returned, lines 44-52.
JsonParsed(f) ==
    /\ fetches[f].pc = "json"
    /\ \E data \in Payloads :
        /\ cache' = (fetches[f].key :> [data |-> data, timestamp |-> now]) @@ cache
        /\ fetches' = [fetches EXCEPT ![f].pc = "returned",
                                      ![f].ret = [k |-> "data", data |-> data]]
    /\ UNCHANGED <<now, network>>
    /\ UNCHANGED exceptHandlers

\* response.json() rejects: the body is not JSON.
JsonInvalid(f) ==
    /\ fetches[f].pc = "json"
    /\ fetches' = [fetches EXCEPT ![f] = fetchCatch(@, "json")]
    /\ UNCHANGED <<now, cache, network>>
    /\ UNCHANGED exceptHandlers

\* getCacheStatus(): lines 338-347.
GetCacheStatus(f) ==
    /\ fetches[f].pc = "idle"
    /\ fetches' = [fetches EXCEPT ![f] =
            [NoFetch EXCEPT !.pc = "returned",
                            !.ret = [k |-> "status", info |-> getCacheStatus]]]
    /\ UNCHANGED <<now, cache, network>>
    /\ UNCHANGED exceptHandlers

\* clearCache(): lines 330-333.
ClearCache(f) ==
    /\ fetches[f].pc = "idle"
    /\ cache # <<>>
    /\ cache' = <<>>
    /\ UNCHANGED <<now, fetches, network>>
    /\ UNCHANGED exceptHandlers

\* The caller is done with the result, or with the error, of its call.
FetcherContinues(f) ==
    /\ fetches[f].pc \in {"returned", "threw"}
    /\ fetches' = [fetches EXCEPT ![f] = NoFetch]
    /\ UNCHANGED <<now, cache, network>>
    /\ UNCHANGED exceptHandlers

NextHandlers ==
    \/ Tick
    \/ \E f \in Fetchers :
        \/ FetchWithCache(f)
        \/ ResponseOk(f)
        \/ FetchRejects(f)
        \/ ResponseNotOk(f)
        \/ JsonParsed(f)
        \/ JsonInvalid(f)
        \/ GetCacheStatus(f)
        \/ ClearCache(f)
        \/ FetcherContinues(f)

SpecHandlers == InitProcessor /\ [][NextHandlers]_vars

\* --- NewsService

\* getArticles(searchQuery) is called, lines 11-25: the cached articles are
\* returned, or the news API is called.
NewsGetArticles(r) ==
    /\ lookups[r].pc = "idle"
    /\ \E searchQuery \in SearchQueries :
        LET cacheKey == generateCacheKey(searchQuery)
            cachedResult == getFromCache(cacheKey)
            call == [NoLookup EXCEPT !.searchQuery = searchQuery,
                                     !.cacheKey = cacheKey,
                                     !.cachedResult = cachedResult]
        IN  /\ newsCache' = afterGetFromCache(cacheKey)
            /\ IF cachedResult # Null
               THEN /\ lookups' = [lookups EXCEPT ![r] =
                            [call EXCEPT !.pc = "returned", !.ret = cachedResult]]
                    /\ UNCHANGED apiCalls
               ELSE /\ lookups' = [lookups EXCEPT ![r] = [call EXCEPT !.pc = "everything"]]
                    /\ apiCalls' = apiCalls \cup {r}
    /\ UNCHANGED now
    /\ UNCHANGED exceptNews

\* The news API answers: the articles are cached and returned, lines 27-29.
ArticlesArrive(r) ==
    /\ lookups[r].pc = "everything"
    /\ \E articles \in ArticleLists :
        /\ newsCache' = addToCache(lookups[r].cacheKey, articles)
        /\ lookups' = [lookups EXCEPT ![r].pc = "returned",
                                      ![r].response = [articles |-> articles],
                                      ![r].ret = List(articles)]
    /\ apiCalls' = apiCalls \ {r}
    /\ UNCHANGED now
    /\ UNCHANGED exceptNews

\* The news API call fails: the empty list is returned, lines 30-33.
ArticlesFail(r) ==
    /\ lookups[r].pc = "everything"
    /\ lookups' = [lookups EXCEPT ![r].pc = "returned", ![r].ret = List(<<>>)]
    /\ apiCalls' = apiCalls \ {r}
    /\ UNCHANGED <<now, newsCache>>
    /\ UNCHANGED exceptNews

\* The caller is done with the articles.
ReaderContinues(r) ==
    /\ lookups[r].pc = "returned"
    /\ lookups' = [lookups EXCEPT ![r] = NoLookup]
    /\ UNCHANGED <<now, newsCache, apiCalls>>
    /\ UNCHANGED exceptNews

NextNews ==
    \/ Tick
    \/ \E r \in Readers :
        \/ NewsGetArticles(r)
        \/ ArticlesArrive(r)
        \/ ArticlesFail(r)
        \/ ReaderContinues(r)

SpecNews == InitProcessor /\ [][NextNews]_vars

\* --- DataValidator

\* validateAll() is called, lines 35-40, up to the await of fs.access.
ValidateAll ==
    /\ validatorPc = "constructed"
    /\ validatorPc' = "access"
    /\ UNCHANGED <<files, errors, warnings, exit, caught, reportWrite>>
    /\ UNCHANGED exceptValidator

\* fs.access settles, lines 78-86; loadLatestData starts, up to the await of
\* fs.readFile.
AccessSettles ==
    /\ validatorPc = "access"
    /\ errors' = IF files["latest.json"] = Absent
                 THEN Append(errors, <<"Missing required file", <<"latest.json">>>>)
                 ELSE errors
    /\ validatorPc' = "readFile"
    /\ UNCHANGED <<files, warnings, exit, caught, reportWrite>>
    /\ UNCHANGED exceptValidator

\* fs.readFile rejects, or JSON.parse throws: lines 96-99 and 67-70.
LoadFails ==
    /\ validatorPc = "readFile"
    /\ files["latest.json"].content # "json"
    /\ errors' = Append(errors, <<"Failed to load data", <<>>>>)
    /\ caught' = [message |-> files["latest.json"].content]
    /\ exit' = [code |-> 1]
    /\ validatorPc' = "exited"
    /\ UNCHANGED <<files, warnings, reportWrite>>
    /\ UNCHANGED exceptValidator

\* The data is loaded: the checks run, generateReport prints the report and
\* calls saveReport, which starts the writeFile and is not awaited: lines 92-95,
\* 46-53, 230-266.
ChecksAndReport ==
    /\ validatorPc = "readFile"
    /\ files["latest.json"].content = "json"
    /\ LET log == runChecks([errors |-> errors, warnings |-> warnings],
                            files["latest.json"].value)
       IN  /\ errors' = log.errors
           /\ warnings' = log.warnings
           /\ reportWrite' = [stage |-> "open", report |-> Report(log)]
    /\ validatorPc' = "report"
    /\ UNCHANGED <<files, exit, caught>>
    /\ UNCHANGED exceptValidator

\* process.exit, lines 56-65, in the turn of the event loop that called
\* generateReport.
ExitAfterReport ==
    /\ validatorPc = "report"
    /\ exit' = [code |-> exitCodeAfterChecks([errors |-> errors, warnings |-> warnings])]
    /\ validatorPc' = "exited"
    /\ UNCHANGED <<files, errors, warnings, caught, reportWrite>>
    /\ UNCHANGED exceptValidator

\* generateReport() is called by a program that uses the exported class, on a
\* new validator: lines 230-266.  The program then waits for the event loop.
GenerateReport ==
    /\ validatorPc = "constructed"
    /\ reportWrite' = [stage |-> "open",
                       report |-> Report([errors |-> errors, warnings |-> warnings])]
    /\ validatorPc' = "waiting"
    /\ UNCHANGED <<files, errors, warnings, exit, caught>>
    /\ UNCHANGED exceptValidator

\* The thread pool opens validation-report.json for writing, which empties it,
\* while the process lives.
OpenReportFile ==
    /\ reportWrite # Undefined
    /\ reportWrite.stage = "open"
    /\ validatorPc # "exited"
    /\ files' = [files EXCEPT !["validation-report.json"] = EmptyFile]
    /\ reportWrite' = [reportWrite EXCEPT !.stage = "write"]
    /\ UNCHANGED <<validatorPc, errors, warnings, exit, caught>>
    /\ UNCHANGED exceptValidator

\* writeFile goes on after the open, in a later turn of the event loop: the
\* report is written and saveReport resumes at line 267.
WriteReportFile ==
    /\ reportWrite # Undefined
    /\ reportWrite.stage = "write"
    /\ validatorPc = "waiting"
    /\ files' = [files EXCEPT !["validation-report.json"] = JsonText(reportWrite.report)]
    /\ reportWrite' = Undefined
    /\ UNCHANGED <<validatorPc, errors, warnings, exit, caught>>
    /\ UNCHANGED exceptValidator

NextValidator ==
    \/ ValidateAll
    \/ AccessSettles
    \/ LoadFails
    \/ ChecksAndReport
    \/ ExitAfterReport
    \/ GenerateReport
    \/ OpenReportFile
    \/ WriteReportFile

SpecValidator == InitValidator /\ [][NextValidator]_vars

\* --- DataCollector

\* calculateGunViolenceByPolitics(gunData, populations): lines 461-490.
CalculateGunViolenceByPolitics ==
    /\ pc = "idle"
    /\ op = "none"
    /\ \E gunData \in RawDataInputs, populations \in PopulationTables :
        /\ op' = "calculateGunViolenceByPolitics"
        /\ args' = [gunData |-> gunData, populations |-> populations]
        /\ ret' = calculateGunViolenceByPolitics(gunData, populations)
    /\ UNCHANGED <<statePopulations, politicalClassifications, pc, locals>>
    /\ UNCHANGED <<serviceVars, pipelineVars>>

NextCollectorPure ==
    \/ CalculateGunViolenceByPolitics
    \/ Forget

SpecEquivalence == InitEquivalence /\ [][NextCollectorPure]_vars

\* analyzeIncidents(incidents), called by a caller of its own: lines 677-689.
AnalyzeIncidents ==
    /\ analysis.pc = "idle"
    /\ collect.pc = "idle"
    /\ run.pc = "idle"
    /\ \E incidents \in IncidentLists, loads \in BOOLEAN :
        analysis' = analyzeIncidents(incidents, loads)
    /\ UNCHANGED <<collect, run, files, exceptCollector>>

\* The promise of fetchNewsArticles resolves: lines 689-699.
NewsArticlesArrive ==
    /\ analysis.pc = "fetchNewsArticles"
    /\ \E newsArticles \in NewsResults :
        analysis' = afterFetchNewsArticles(analysis, newsArticles)
    /\ UNCHANGED <<collect, run, files, exceptCollector>>

\* The promise of batchAnalyzeArticles resolves: lines 699-704.
ArticlesAnalyzed ==
    /\ analysis.pc = "batchAnalyzeArticles"
    /\ \E result \in ClassifierResults :
        analysis' = afterBatchAnalyzeArticles(analysis, result)
    /\ UNCHANGED <<collect, run, files, exceptCollector>>

\* The promise of batchAnalyzeArticles rejects: lines 706-710.
ClassifierFails ==
    /\ analysis.pc = "batchAnalyzeArticles"
    /\ analysis' = analyzeCatch(analysis, "classifier request failed")
    /\ UNCHANGED <<collect, run, files, exceptCollector>>

\* The caller of analyzeIncidents has its result and goes on.
AnalysisContinues ==
    /\ analysis.pc \in {"returned", "rejected"}
    /\ collect.pc = "idle"
    /\ analysis' = NoAnalysis
    /\ UNCHANGED <<collect, run, files, exceptCollector>>

\* collectCensusData(), called by a caller of its own: line 141.
CollectCensusData ==
    /\ collect.pc = "idle"
    /\ analysis.pc = "idle"
    /\ run.pc = "idle"
    /\ collect' = collectCensusData
    /\ UNCHANGED <<analysis, run, files, exceptCollector>>

\* The census response has arrived and parsed as JSON: lines 144-160.
CensusArrives ==
    /\ collect.pc = "fetchJSON"
    /\ \E data \in CensusBodies : collect' = afterFetchJSON(collect, data)
    /\ UNCHANGED <<analysis, run, files, exceptCollector>>

\* fetchJSON rejects, for a network error or a body that is not JSON: lines
\* 161-165, 396-402.
CensusFails ==
    /\ collect.pc = "fetchJSON"
    /\ collect' = censusCatch(collect, "request failed")
    /\ UNCHANGED <<analysis, run, files, exceptCollector>>

\* collectGVAData(), called by a caller of its own: line 168.
CollectGVAData ==
    /\ collect.pc = "idle"
    /\ analysis.pc = "idle"
    /\ run.pc = "idle"
    /\ collect' = collectGVAData
    /\ UNCHANGED <<analysis, run, files, exceptCollector>>

GvaRequests == {"total-number-of-incidents", "mass-shootings", "casualties", "state-rankings"}

\* One of the four pages has arrived: lines 189-252.
GvaPageArrives ==
    /\ collect.pc \in GvaRequests
    /\ \E page \in GvaPages, daysIntoYear \in DaysIntoYear :
        collect' = afterGvaPage(collect, page, daysIntoYear)
    /\ UNCHANGED <<analysis, run, files, exceptCollector>>

\* One of the four requests rejects, for a network error, a timeout or a
\* status that axios refuses: lines 254-276.
GvaRequestFails ==
    /\ collect.pc \in GvaRequests
    /\ \E daysIntoYear \in DaysIntoYear :
        collect' = gvaCatch(collect, "request failed", daysIntoYear)
    /\ UNCHANGED <<analysis, run, files, exceptCollector>>

\* collectRecentIncidents(), called by a caller of its own: line 608.
CollectRecentIncidents ==
    /\ collect.pc = "idle"
    /\ analysis.pc = "idle"
    /\ run.pc = "idle"
    /\ collect' = collectRecentIncidents
    /\ UNCHANGED <<analysis, run, files, exceptCollector>>

\* The page of the last 72 hours has arrived: lines 620-656. Without status
\* 403 its rows are parsed and analyzeIncidents is called.
RecentArrives ==
    /\ collect.pc = "last-72-hours"
    /\ \E status \in {200, 403}, incidents \in IncidentLists, loads \in BOOLEAN :
        IF status = 403
        THEN /\ collect' = recentCatch(collect, "Access blocked by GVA")
             /\ analysis' = analysis
        ELSE /\ collect' = [collect EXCEPT !.pc = "analyzeIncidents"]
             /\ analysis' = analyzeIncidents(incidents, loads)
    /\ UNCHANGED <<run, files, exceptCollector>>

\* The request of the page rejects: lines 665-674.
RecentFails ==
    /\ collect.pc = "last-72-hours"
    /\ collect' = recentCatch(collect, "request failed")
    /\ UNCHANGED <<analysis, run, files, exceptCollector>>

\* The promise of analyzeIncidents settles: lines 656-674.
AnalysisSettles ==
    /\ collect.pc = "analyzeIncidents"
    /\ analysis.pc \in {"returned", "rejected"}
    /\ collect' = afterAnalyzeIncidents(collect, analysis)
    /\ analysis' = NoAnalysis
    /\ UNCHANGED <<run, files, exceptCollector>>

\* The caller of the collect method has its result and goes on.
CollectorContinues ==
    /\ collect.pc \in {"resolved", "rejected"}
    /\ run.pc = "idle"
    /\ collect' = NoCollect
    /\ UNCHANGED <<analysis, run, files, exceptCollector>>

\* The steps of a collect method and of analyzeIncidents after the call.
NextCollectSteps ==
    \/ NewsArticlesArrive
    \/ ArticlesAnalyzed
    \/ ClassifierFails
    \/ CensusArrives
    \/ CensusFails
    \/ GvaPageArrives
    \/ GvaRequestFails
    \/ RecentArrives
    \/ RecentFails
    \/ AnalysisSettles

NextCollector ==
    \/ AnalyzeIncidents
    \/ AnalysisContinues
    \/ CollectCensusData
    \/ CollectGVAData
    \/ CollectRecentIncidents
    \/ CollectorContinues
    \/ NextCollectSteps

SpecCollector == InitProcessor /\ [][NextCollector]_vars

\* collectAllData() up to its first await: lines 62-87.
CollectAllData ==
    /\ run.pc = "idle"
    /\ collect.pc = "idle"
    /\ analysis.pc = "idle"
    /\ run' = [NoRun EXCEPT !.pc = "collectCensusData", !.data = [year |-> 2025]]
    /\ collect' = collectCensusData
    /\ UNCHANGED <<analysis, files, exceptCollector>>

\* The promise of collectCensusData settles: lines 87-93, 135-138.
CensusCollected ==
    /\ run.pc = "collectCensusData"
    /\ collect.pc \in {"resolved", "rejected"}
    /\ IF collect.pc = "rejected"
       THEN /\ run' = runCatch(run, collect.error)
            /\ collect' = NoCollect
       ELSE /\ run' = [pushSuccessful(run, "census", collect.ret)
                          EXCEPT !.pc = "collectGVAData"]
            /\ collect' = collectGVAData
    /\ UNCHANGED <<analysis, files, exceptCollector>>

\* The promise of collectGVAData settles: lines 93-99, 135-138.
GvaCollected ==
    /\ run.pc = "collectGVAData"
    /\ collect.pc \in {"resolved", "rejected"}
    /\ IF collect.pc = "rejected"
       THEN run' = runCatch(run, collect.error)
       ELSE run' = [pushSuccessful(run, "gunViolence", collect.ret)
                       EXCEPT !.pc = "collectPoliticalViolenceData"]
    /\ collect' = NoCollect
    /\ UNCHANGED <<analysis, files, exceptCollector>>

\* The promise of one of the three methods without a request resolves: lines
\* 99-117.
StaticSourceCollected ==
    /\ run.pc \in {"collectPoliticalViolenceData", "collectGunLawData",
                   "collectMonthlyTrends"}
    /\ \E incidents \in TrendIncidents :
        CASE run.pc = "collectPoliticalViolenceData" ->
                /\ run' = [pushSuccessful(run, "politicalViolence",
                                          collectPoliticalViolenceData)
                              EXCEPT !.pc = "collectGunLawData"]
                /\ collect' = collect
          [] run.pc = "collectGunLawData" ->
                /\ run' = [pushSuccessful(run, "gunLaws", collectGunLawData)
                              EXCEPT !.pc = "collectMonthlyTrends"]
                /\ collect' = collect
          [] run.pc = "collectMonthlyTrends" ->
                /\ run' = [pushSuccessful(run, "monthlyTrends",
                                          collectMonthlyTrends(run.data.year, incidents))
                              EXCEPT !.pc = "collectRecentIncidents"]
                /\ collect' = collectRecentIncidents
    /\ UNCHANGED <<analysis, files, exceptCollector>>

\* The promise of collectRecentIncidents settles, and saveRawData starts its
\* writeFile: lines 117-121, 406-410.
RecentCollected ==
    /\ run.pc = "collectRecentIncidents"
    /\ collect.pc \in {"resolved", "rejected"}
    /\ IF collect.pc = "rejected"
       THEN run' = runCatch(run, collect.error)
       ELSE run' = [pushSuccessful(run, "recentIncidents", collect.ret)
                       EXCEPT !.pc = "saveRawData"]
    /\ collect' = NoCollect
    /\ UNCHANGED <<analysis, files, exceptCollector>>

\* The file that the writeFile in flight writes.
WrittenFile ==
    CASE run.pc = "saveRawData" -> "raw-data.json"
      [] run.pc = "saveProcessedData" -> "processed-data.json"
      [] run.pc = "latest" -> "latest.json"

\* The raw file of the day is written; processData runs and saveProcessedData
\* starts its first writeFile: lines 121-125, 410-411, 553-557.
RawDataSaved ==
    /\ run.pc = "saveRawData"
    /\ files' = [files EXCEPT !["raw-data.json"] = JsonText(run.data)]
    /\ run' = [run EXCEPT !.pc = "saveProcessedData",
                          !.saved = Append(@, "raw-data.json"),
                          !.processed = processData(run.data, now)]
    /\ UNCHANGED <<collect, analysis, exceptCollector>>

\* The processed file of the day is written, and the writeFile of latest.json
\* starts: lines 557-562.
ProcessedDataSaved ==
    /\ run.pc = "saveProcessedData"
    /\ files' = [files EXCEPT !["processed-data.json"] = JsonText(run.processed)]
    /\ run' = [run EXCEPT !.pc = "latest", !.saved = Append(@, "processed-data.json")]
    /\ UNCHANGED <<collect, analysis, exceptCollector>>

\* latest.json is written and collectAllData returns results: lines 562-563,
\* 127-133.
LatestSaved ==
    /\ run.pc = "latest"
    /\ files' = [files EXCEPT !["latest.json"] = JsonText(run.processed)]
    /\ run' = [run EXCEPT !.pc = "returned", !.saved = Append(@, "latest.json")]
    /\ UNCHANGED <<collect, analysis, exceptCollector>>

\* The writeFile in flight rejects: lines 135-138. fs.writeFile opens the file
\* with flag w and then writes: a failure of the open leaves the file as it
\* was, a failure of the write (a full disk) leaves it truncated.
WriteFileFails ==
    /\ run.pc \in {"saveRawData", "saveProcessedData", "latest"}
    /\ \E left \in {files[WrittenFile], EmptyFile} :
        files' = [files EXCEPT ![WrittenFile] = left]
    /\ run' = runCatch(run, "ENOSPC: no space left on device, write")
    /\ UNCHANGED <<collect, analysis, exceptCollector>>

NextCollectAll ==
    \/ CollectAllData
    \/ CensusCollected
    \/ GvaCollected
    \/ StaticSourceCollected
    \/ RecentCollected
    \/ RawDataSaved
    \/ ProcessedDataSaved
    \/ LatestSaved
    \/ WriteFileFails
    \/ NextCollectSteps

\* The start of the collector's runs: latest.json is as an earlier run left
\* it.
InitCollectAll ==
    /\ ConstructDataProcessor
    /\ ConstructMultiNewsService({})
    /\ ConstructObjects
    /\ \E latest \in EarlierFiles :
        files = [name \in FileNames |-> IF name = "latest.json" THEN latest ELSE Absent]

SpecCollectAll == InitCollectAll /\ [][NextCollectAll]_vars

Next ==
    \/ CallProcessGunViolenceByPolitics
    \/ ForEachStateData
    \/ ReturnProcessGunViolenceByPolitics
    \/ ProcessGunLawCorrelation
    \/ CalculatePearsonCorrelation
    \/ InterpretCorrelation
    \/ ProcessMonthlyTrends
    \/ AnalyzeTrend
    \/ Forget
    \/ NextService
    \/ CalculateGunViolenceByPolitics
    \/ NextHandlers
    \/ NextNews
    \/ NextValidator
    \/ NextCollector
    \/ NextCollectAll

Spec == Init /\ [][Next]_vars

\* The methods are independent of each other (no call changes a field), so each
\* is also checked on its own.
NextPolitics ==
    \/ CallProcessGunViolenceByPolitics
    \/ ForEachStateData
    \/ ReturnProcessGunViolenceByPolitics
    \/ Forget

SpecPolitics == InitProcessor /\ [][NextPolitics]_vars

NextCorrelation ==
    \/ ProcessGunLawCorrelation
    \/ Forget

SpecCorrelation == InitProcessor /\ [][NextCorrelation]_vars

NextPearson ==
    \/ CalculatePearsonCorrelation
    \/ Forget

SpecPearson == InitProcessor /\ [][NextPearson]_vars

NextInterpret ==
    \/ InterpretCorrelation
    \/ Forget

SpecInterpret == InitProcessor /\ [][NextInterpret]_vars

\* The three methods of the aggregator, called one after another in any order.
NextAggregator ==
    \/ CallProcessGunViolenceByPolitics
    \/ ForEachStateData
    \/ ReturnProcessGunViolenceByPolitics
    \/ ProcessGunLawCorrelation
    \/ ProcessMonthlyTrends
    \/ Forget

SpecAggregator == InitProcessor /\ [][NextAggregator]_vars

NextMonthly ==
    \/ ProcessMonthlyTrends
    \/ Forget

SpecMonthly == InitProcessor /\ [][NextMonthly]_vars

NextTrend ==
    \/ AnalyzeTrend
    \/ Forget

SpecTrend == InitProcessor /\ [][NextTrend]_vars

\* ------------------------------------------------------------------ claims

Returned(method) == pc = "idle" /\ op = method

IsClassified(state) ==
    \E c \in Categories : includes(politicalClassifications[c], state)

TablePopulation(state) ==
    IF state \in DOMAIN statePopulations THEN statePopulations[state] ELSE 0

\* The incidents of the classified records among the first i.
RECURSIVE ClassifiedIncidents(_, _)
ClassifiedIncidents(records, i) ==
    IF i = 0 THEN 0
    ELSE ClassifiedIncidents(records, i - 1)
         + (IF IsClassified(records[i].state) THEN records[i].incidents ELSE 0)

\* The table populations of the records of category c among the first i.
RECURSIVE CategoryPopulation(_, _, _)
CategoryPopulation(records, c, i) ==
    IF i = 0 THEN 0
    ELSE CategoryPopulation(records, c, i - 1)
         + (IF includes(politicalClassifications[c], records[i].state)
            THEN TablePopulation(records[i].state) ELSE 0)

\* The table populations of a set of states.
RECURSIVE PopulationOfStates(_)
PopulationOfStates(S) ==
    IF S = {} THEN 0
    ELSE LET x == CHOOSE x \in S : TRUE
         IN  TablePopulation(x) + PopulationOfStates(S \ {x})

\* (n / d) * mult to two decimals, as a number of hundredths, for n >= 0, d > 0
\* and mult a power of ten: long division, one decimal digit at a time.
RECURSIVE LongDivision(_, _, _, _)
LongDivision(q, r, d, digits) ==
    IF digits = 0 THEN <<q, r>>
    ELSE LongDivision(q * 10 + (r * 10) \div d, (r * 10) % d, d, digits - 1)

RECURSIVE Log10(_)
Log10(n) == IF n < 10 THEN 0 ELSE 1 + Log10(n \div 10)

Hundredths(rate) ==
    LET qr == LongDivision(rate.n \div rate.d, rate.n % rate.d, rate.d,
                           Log10(rate.mult) + 2)
    IN  IF 2 * qr[2] >= rate.d THEN qr[1] + 1 ELSE qr[1]

\* C1: when processGunViolenceByPolitics returns, the incidents of red, blue and
\* swing add up to the incidents of exactly the input records whose state is in
\* one of the three classification lists.
C1_IncidentsConserved ==
    Returned("processGunViolenceByPolitics") =>
        ret.red.incidents + ret.blue.incidents + ret.swing.incidents
            = ClassifiedIncidents(args.stateBreakdown, Len(args.stateBreakdown))

\* A call returned whose input holds a swing state and an unclassified state,
\* both with incidents.
C1_Witness ==
    /\ Returned("processGunViolenceByPolitics")
    /\ \E i, j \in 1..Len(args.stateBreakdown) :
        /\ args.stateBreakdown[i] = [state |-> "AZ", incidents |-> 4234]
        /\ args.stateBreakdown[j] = [state |-> "ZZ", incidents |-> 3892]

RateIsZero(rate) == rate.k = "num" /\ rate.n = 0

RateIsFiniteNonNegative(rate) ==
    rate.k = "num" /\ Sign(rate.n) * Sign(rate.d) * Sign(rate.mult) >= 0

\* C2: every category's rate returned by processGunViolenceByPolitics is a
\* finite number >= 0, and it is 0 when the category's population is 0.
C2_RateFiniteAndZeroWithoutPopulation ==
    Returned("processGunViolenceByPolitics") =>
        \A c \in Categories :
            /\ RateIsFiniteNonNegative(ret[c].rate)
            /\ ret[c].population = 0 => RateIsZero(ret[c].rate)

Totals(loc) == [red |-> loc.redStates, blue |-> loc.blueStates, swing |-> loc.swingStates]

ListsPairwiseDisjoint ==
    \A c, d \in Categories :
        c # d => \A i \in 1..Len(politicalClassifications[c]) :
                    ~includes(politicalClassifications[d], politicalClassifications[c][i])

\* What one call of the forEach callback does to the three totals.
ForEachEffect ==
    (pc = "forEach" /\ pc' = "forEach") =>
        LET stateData == args.stateBreakdown[locals.index]
            lists == {c \in Categories :
                        includes(politicalClassifications[c], stateData.state)}
        IN  IF lists = {}
            THEN Totals(locals') = Totals(locals)
            ELSE /\ Cardinality(lists) = 1
                 /\ \A c \in Categories :
                        Totals(locals')[c] =
                            IF c \in lists
                            THEN AddTo(Totals(locals)[c], stateData.incidents,
                                       TablePopulation(stateData.state))
                            ELSE Totals(locals)[c]

\* C3: the three classification lists are pairwise disjoint, a record whose
\* state is in none of them changes no category's incidents or population, and
\* a record whose state is in one is added to that category and to no other.
C3_UnclassifiedSkippedClassifiedOnce ==
    []ListsPairwiseDisjoint /\ [][ForEachEffect]_vars

\* The loop has passed an unclassified record with incidents and then a
\* classified one.
C3_Witness ==
    /\ pc = "forEach"
    /\ locals.index = 3
    /\ args.stateBreakdown[1] = [state |-> "ZZ", incidents |-> 4234]
    /\ args.stateBreakdown[2] = [state |-> "CA", incidents |-> 3892]
    /\ Totals(locals) = [red |-> ZeroTotals,
                         blue |-> [incidents |-> 3892, population |-> 38965193],
                         swing |-> ZeroTotals]

ExampleBreakdown ==
    <<[state |-> "TX", incidents |-> 4234], [state |-> "CA", incidents |-> 3892]>>

\* C4: a category with population > 0 has rate = incidents / population * 100000;
\* for {TX:4234, CA:3892} red is 4234 incidents, 30503301 people and a rate of
\* 13.88, and blue is 3892 incidents, 38965193 people and a rate of 9.99.
C4_RateIsPerHundredThousand ==
    Returned("processGunViolenceByPolitics") =>
        /\ \A c \in Categories :
            ret[c].population > 0 =>
                ret[c].rate = [k |-> "num", n |-> ret[c].incidents,
                               d |-> ret[c].population, mult |-> 100000]
        /\ args.stateBreakdown = ExampleBreakdown =>
            /\ ret.red.incidents = 4234
            /\ ret.red.population = 30503301
            /\ Hundredths(ret.red.rate) = 1388
            /\ ret.blue.incidents = 3892
            /\ ret.blue.population = 38965193
            /\ Hundredths(ret.blue.rate) = 999

\* The call on the example input returned.
C4_Witness ==
    /\ Returned("processGunViolenceByPolitics")
    /\ args.stateBreakdown = ExampleBreakdown
    /\ ret.red.rate.k = "num"
    /\ ret.blue.rate.k = "num"

HasDuplicateState(records) ==
    \E i, j \in 1..Len(records) : i # j /\ records[i].state = records[j].state

\* C5: a category's population is the sum, over the input records of that
\* category, of the table population of the record's state (0 without an entry):
\* a state that appears k times counts k times, and without duplicates it is the
\* total population of the category's states that are present.
C5_PopulationSummedPerRecord ==
    Returned("processGunViolenceByPolitics") =>
        \A c \in Categories :
            /\ ret[c].population =
                   CategoryPopulation(args.stateBreakdown, c, Len(args.stateBreakdown))
            /\ ~HasDuplicateState(args.stateBreakdown) =>
                   ret[c].population =
                       PopulationOfStates(
                           {args.stateBreakdown[i].state :
                               i \in {j \in 1..Len(args.stateBreakdown) :
                                        includes(politicalClassifications[c],
                                                 args.stateBreakdown[j].state)}})

\* A call returned whose input names TX twice and DC, which has no entry.
C5_Witness ==
    /\ Returned("processGunViolenceByPolitics")
    /\ Len(args.stateBreakdown) = 3
    /\ args.stateBreakdown[1].state = "TX"
    /\ args.stateBreakdown[2].state = "DC"
    /\ args.stateBreakdown[3].state = "TX"
    /\ ret.red.population = 2 * 30503301
    /\ ret.blue.population = 0

\* The states of the records among the first i whose state has a law score and
\* a population > 0, in input order.
RECURSIVE InnerJoinStates(_, _, _)
InnerJoinStates(scores, records, i) ==
    IF i = 0 THEN <<>>
    ELSE LET before == InnerJoinStates(scores, records, i - 1)
             state == records[i].state
         IN  IF state \in DOMAIN scores /\ TablePopulation(state) > 0
             THEN Append(before, state)
             ELSE before

\* C6: the data list of processGunLawCorrelation has one point for each record
\* whose state has a law score (0 included) and a population > 0, and no other.
C6_DataIsInnerJoin ==
    Returned("processGunLawCorrelation") =>
        [i \in 1..Len(ret.data) |-> ret.data[i].state]
            = InnerJoinStates(args.gunLawData.scores,
                              args.gunViolenceData.stateBreakdown,
                              Len(args.gunViolenceData.stateBreakdown))

IsConstantSeries(x) == \A i, j \in 1..Len(x) : x[i] = x[j]

One == FromInt(1)

\* C7: calculatePearsonCorrelation returns 0 for every constant series x (the
\* empty and the one-element series among them) and every y of x's length.
C7_ZeroForConstantSeries ==
    Returned("calculatePearsonCorrelation") =>
        (IsConstantSeries(args.x) => ret = Zero)

\* C8: calculatePearsonCorrelation(x, x) is 1 for every series x that is not
\* constant.
C8_SelfCorrelationIsOne ==
    Returned("calculatePearsonCorrelation") =>
        (args.x = args.y /\ ~IsConstantSeries(args.x) => ret = One)

\* C9: calculatePearsonCorrelation(x, y) and calculatePearsonCorrelation(y, x)
\* are the same value, for series of one length.
C9_Symmetric ==
    Returned("calculatePearsonCorrelation") =>
        ret = calculatePearsonCorrelation(args.y, args.x)

\* The call returned a coefficient other than 0 for two different series.
C9_Witness ==
    /\ Returned("calculatePearsonCorrelation")
    /\ args.x # args.y
    /\ Len(args.x) = 3
    /\ ret.k = "num"
    /\ ret.m # 0

\* C10: the coefficient calculatePearsonCorrelation returns is a number in
\* [-1, 1].
C10_CoefficientInUnitInterval ==
    Returned("calculatePearsonCorrelation") =>
        /\ ret.k = "num"
        /\ Fcmp(ret, One) <= 0
        /\ Fcmp(ret, Fneg(One)) >= 0

\* |r| >= num/den, with the threshold as the number the literal denotes.
AtLeast(r, num, den) == Fcmp(Fabs(r), DecimalLiteral(num, den)) >= 0

\* C11: interpretCorrelation(r) reports strength strong when |r| >= 0.7, moderate
\* when 0.4 <= |r| < 0.7, weak when 0.2 <= |r| < 0.4 and very weak otherwise (NaN
\* included), and direction negative exactly when r < 0, positive otherwise.
C11_StrengthAndDirection ==
    Returned("interpretCorrelation") =>
        LET r == args.r
            isNumber == r.k = "num"
        IN  /\ ret.strength =
                   IF isNumber /\ AtLeast(r, 7, 10) THEN "strong"
                   ELSE IF isNumber /\ AtLeast(r, 4, 10) /\ ~AtLeast(r, 7, 10)
                   THEN "moderate"
                   ELSE IF isNumber /\ AtLeast(r, 2, 10) /\ ~AtLeast(r, 4, 10)
                   THEN "weak"
                   ELSE "very weak"
            /\ ret.direction = "negative" <=> (isNumber /\ Fcmp(r, Zero) < 0)
            /\ ret.direction \in {"negative", "positive"}
            /\ r = Zero => ret.direction = "positive"

\* The call on the threshold -0.7 itself returned: strong and negative.
C11_Witness ==
    /\ Returned("interpretCorrelation")
    /\ args.r = Fneg(DecimalLiteral(7, 10))
    /\ ret.strength = "strong"
    /\ ret.direction = "negative"

IncidentsOf(records) == [i \in 1..Len(records) |-> records[i].incidents]

\* C12: processMonthlyTrends gives the first record the growthRate 0 and every
\* later record whose previous month has incidents > 0 the growth rate
\* (incidents[i] - incidents[i-1]) / incidents[i-1] * 100 to one decimal, that is
\* a number of tenths at most half a tenth away from it; for the incidents
\* [100, 150, 120] the growth rates are [0, 50.0, -20.0].
C12_GrowthRateToOneDecimal ==
    Returned("processMonthlyTrends") =>
        LET incidents == IncidentsOf(args.rawTrendData)
            rate(i) == ret.data[i].growthRate
        IN  /\ Len(ret.data) = Len(incidents)
            /\ \A i \in 1..Len(incidents) :
                /\ i = 1 => rate(i) = [k |-> "num", v |-> 0]
                /\ (i > 1 /\ incidents[i - 1] > 0) =>
                    /\ rate(i).k = "num"
                    /\ 2 * Abs(rate(i).v * incidents[i - 1]
                               - 1000 * (incidents[i] - incidents[i - 1]))
                           <= incidents[i - 1]
            /\ incidents = <<100, 150, 120>> =>
                    [i \in 1..3 |-> rate(i).v] = <<0, 500, -200>>

\* The call on the months [100, 150, 120] returned.
C12_Witness ==
    /\ Returned("processMonthlyTrends")
    /\ IncidentsOf(args.rawTrendData) = <<100, 150, 120>>
    /\ ret.data[2].growthRate = [k |-> "num", v |-> 500]
    /\ ret.data[3].growthRate = [k |-> "num", v |-> -200]

\* C13: for every non-empty list and every index i (from 0), movingAverage[i] is
\* the mean, to the nearest integer, of the incidents at the indices from
\* start = max(0, i - 1) up to but not including min(len, start + 3), a range
\* that is never empty; a constant list such as [5, 5, 5, 5, 5] gives that
\* constant at every index.
C13_MovingAverageOverWindow ==
    Returned("processMonthlyTrends") =>
        LET incidents == IncidentsOf(args.rawTrendData)
            len == Len(incidents)
        IN  /\ \A i \in 0..(len - 1) :
                LET start == IF i - 1 > 0 THEN i - 1 ELSE 0
                    end == IF len < start + 3 THEN len ELSE start + 3
                    average == ret.data[i + 1].movingAverage
                IN  /\ start < end
                    /\ average.k = "num"
                    /\ 2 * Abs(average.v * (end - start)
                               - SumIncidents(args.rawTrendData, start + 1, end))
                           <= end - start
            /\ \A c \in MonthlyIncidents :
                    (\A i \in 1..len : incidents[i] = c) =>
                        \A i \in 1..len : ret.data[i].movingAverage.v = c

\* The call on the months [5, 5, 5, 5, 5] returned 5 at both ends and in the
\* middle.
C13_Witness ==
    /\ Returned("processMonthlyTrends")
    /\ IncidentsOf(args.rawTrendData) = <<5, 5, 5, 5, 5>>
    /\ ret.data[1].movingAverage = [k |-> "num", v |-> 5]
    /\ ret.data[3].movingAverage = [k |-> "num", v |-> 5]
    /\ ret.data[5].movingAverage = [k |-> "num", v |-> 5]

\* The sum of the integers data[from..to] (numbers m * 2^e with e >= 0), exact.
RECURSIVE ExactSum(_, _, _)
ExactSum(data, from, to) ==
    IF to < from THEN 0
    ELSE ExactSum(data, from, to - 1) + data[to].m * 2^(data[to].e)

\* The trend of the exact means: second / n2 against first / n1 times 1.05 and
\* times 0.95, for sums first and second of n1 and n2 values.
ExactTrend(first, n1, second, n2) ==
    IF 100 * second * n1 > 105 * first * n2 THEN "increasing"
    ELSE IF 100 * second * n1 < 95 * first * n2 THEN "decreasing"
    ELSE "stable"

\* C14: for every series of at least 2 values analyzeTrend compares the mean of
\* the values from index floor(len/2) on with the mean of the values before it,
\* and returns increasing when it is more than 5% higher, decreasing when it is
\* more than 5% lower, and stable otherwise.
C14_TrendOfHalves ==
    Returned("analyzeTrend") =>
        LET data == args.data
            half == Len(data) \div 2
        IN  Len(data) >= 2 =>
                ret = ExactTrend(ExactSum(data, 1, half), half,
                                 ExactSum(data, half + 1, Len(data)),
                                 Len(data) - half)

\* C15: for a list of fewer than 2 months processMonthlyTrends returns a result,
\* with one processed record per month, and its trend is 'insufficient data'.
C15_InsufficientDataSentinel ==
    Returned("processMonthlyTrends") =>
        (Len(args.rawTrendData) < 2 =>
            /\ ret.trend = "insufficient data"
            /\ Len(ret.data) = Len(args.rawTrendData)
            /\ ret.totalIncidents = SumIncidents(args.rawTrendData, 1,
                                                 Len(args.rawTrendData)))

\* The call on the empty list returned: no records, a total of 0, and an
\* average of 0/0.
C15_Witness ==
    /\ Returned("processMonthlyTrends")
    /\ args.rawTrendData = <<>>
    /\ ret.data = <<>>
    /\ ret.totalIncidents = 0
    /\ ret.averageMonthly = MonthlyNaN
    /\ ret.trend = "insufficient data"

\* C18: every growthRate processMonthlyTrends returns is a finite number, and it
\* is 0 for a record whose previous month has 0 incidents.
C18_GrowthRateFiniteWithFallback ==
    Returned("processMonthlyTrends") =>
        \A i \in 1..Len(ret.data) :
            /\ ret.data[i].growthRate.k = "num"
            /\ (i > 1 /\ args.rawTrendData[i - 1].incidents = 0) =>
                    ret.data[i].growthRate.v = 0

\* No step changes a table of the processor, and no step of a call or after it
\* changes the call's arguments.
FrameOfCalls ==
    /\ statePopulations' = statePopulations
    /\ politicalClassifications' = politicalClassifications
    /\ (op # "none" /\ op' = op) => args' = args

\* The value a method returns is the method's function of its arguments and of
\* the tables as the constructor made them.
ResultDependsOnInputsOnly ==
    /\ statePopulations = ConstructorPopulations
    /\ politicalClassifications = ConstructorClassifications
    /\ Returned("processGunViolenceByPolitics") =>
            ret = processGunViolenceByPolitics(args)
    /\ Returned("processGunLawCorrelation") =>
            ret = processGunLawCorrelation(args.gunLawData, args.gunViolenceData)
    /\ Returned("processMonthlyTrends") =>
            ret = processMonthlyTrends(args.rawTrendData)

\* C16: processGunViolenceByPolitics, processGunLawCorrelation and
\* processMonthlyTrends change neither their input nor the statePopulations and
\* politicalClassifications tables, and what each returns depends on its input
\* alone: in any sequence of calls on one processor, equal inputs give equal
\* results.
C16_CallsArePure == [][FrameOfCalls]_vars /\ []ResultDependsOnInputsOnly

\* A call on a list that names DC, a state without a population entry, and an
\* unknown state has returned.
C16_Witness ==
    /\ Returned("processGunViolenceByPolitics")
    /\ Len(args.stateBreakdown) = 2
    /\ args.stateBreakdown[1].state = "DC"
    /\ args.stateBreakdown[2].state = "ZZ"
    /\ ret.blue.incidents = args.stateBreakdown[1].incidents
    /\ "DC" \notin DOMAIN statePopulations

\* What an api call comes to when it gives getArticles nothing to return.
NoArticles == {Null, Threw, List(<<>>)}

\* One step of caller c's call, from the call before to the call after.
InProviderOrder(before, after) ==
    \* the index moves from one provider to the next, and only after the api
    \* call of the provider it leaves came to nothing
    /\ after.api # before.api =>
            \/ after.pc = "idle"
            \/ before.pc = "idle" /\ after.pc = "loop" /\ after.api = 1
            \/ /\ before.api \in 1..Len(apis)
               /\ after.api = before.api + 1
               /\ after.articles \in NoArticles
    \* a provider is invoked in its own iteration
    /\ (after.pc = "request" /\ before.pc # "request") =>
            before.pc = "loop" /\ after.api = before.api /\ after.api \in 1..Len(apis)
    \* what is returned is the non-empty list of the current provider, or the
    \* empty list once the last provider is passed
    /\ (after.pc = "returned" /\ before.pc # "returned") =>
            /\ after.ret.k = "list"
            /\ IF after.ret.list # <<>>
               THEN /\ before.api \in 1..Len(apis)
                    /\ after.ret.list = <<[source |-> apis[before.api]]>>
               ELSE before.api = Len(apis) + 1

\* C17: getArticles goes through the providers in the order Mediastack, GNews,
\* Newsdata, NYT; a provider is invoked only after every earlier one returned
\* null or an empty list or threw, and the articles returned are those of the
\* first provider that gave a non-empty list.
C17_ProvidersTriedInOrder ==
    /\ [](apis = <<"mediastack", "gnews", "newsdata", "nyt">>)
    /\ [][\A c \in Callers : InProviderOrder(calls[c], calls'[c])]_vars

\* With every key configured a call returned the articles of NYT, the last
\* provider.
C17_Witness ==
    /\ apiKeys = AllProviders
    /\ \E c \in Callers :
        /\ calls[c].pc = "returned"
        /\ calls[c].api = 4
        /\ calls[c].ret = List(<<[source |-> "nyt"]>>)

\* C19: a call of getArticles never ends with an exception: after a provider
\* threw, the call is in its next iteration or has returned, and a call that
\* passed the last provider returned the empty list.
C19_NeverRejects ==
    \A c \in Callers :
        /\ calls[c].pc \in {"idle", "loop", "request", "fallback", "returned"}
        /\ calls[c].articles = Threw =>
                /\ calls[c].pc \in {"loop", "returned"}
                /\ calls[c].api >= 2
        /\ calls[c].pc = "returned" =>
                /\ calls[c].ret.k = "list"
                /\ calls[c].api = Len(apis) + 1 => calls[c].ret = List(<<>>)

\* With every key configured a call returned the empty list after tryNYT threw,
\* that is after both of its requests failed.
C19_Witness ==
    /\ apiKeys = AllProviders
    /\ \E c \in Callers :
        /\ calls[c].pc = "returned"
        /\ calls[c].api = Len(apis) + 1
        /\ calls[c].articles = Threw
        /\ calls[c].ret = List(<<>>)

\* At the limit no step sends a request to Mediastack.
NoRequestAtLimit ==
    requestCounts.mediastack >= MediastackLimit =>
        mediastackRequests' = mediastackRequests

\* C20: whatever the callers do and however their calls interleave, at most 100
\* requests are sent to Mediastack: every request sent is counted when it is
\* sent, whether or not it fails later, and once the count is 100 no further
\* request is sent.
C20_MediastackLimit ==
    /\ [](mediastackRequests <= 100)
    /\ [](mediastackRequests = requestCounts.mediastack)
    /\ [][NoRequestAtLimit]_vars

\* The count is 100: one caller's hundredth request is not answered yet, and
\* another caller's tryMediastack has returned null.
C20_Witness ==
    /\ "mediastack" \in apiKeys
    /\ requestCounts.mediastack = 100
    /\ mediastackRequests = 100
    /\ \E c, d \in Callers :
        /\ calls[c].pc = "request" /\ calls[c].api = 1
        /\ calls[d].pc = "loop" /\ calls[d].api = 2 /\ calls[d].articles = Null

\* C28: for every state breakdown and every population table P,
\* DataCollector.calculateGunViolenceByPolitics(gunData, P) has the same
\* incidents, population and rate for red, blue and swing as
\* DataProcessor.processGunViolenceByPolitics(gunData) has on a processor whose
\* statePopulations is P; the two copies of the classification lists are the
\* same lists.
C28_CollectorAgreesWithProcessor ==
    /\ getPoliticalClassifications = politicalClassifications
    /\ (Returned("calculateGunViolenceByPolitics") /\ args.populations = statePopulations)
        => \A c \in Categories :
            LET collected == ret[c]
                processed == processGunViolenceByPolitics(args.gunData)[c]
            IN  /\ collected.incidents = processed.incidents
                /\ collected.population = processed.population
                /\ collected.rate = processed.rate

\* The collector returned for a table that is not the constructor's, with a
\* record of each category, a state of population 0 and a category without
\* population (its rate is NaN in both).
C28_Witness ==
    /\ Returned("calculateGunViolenceByPolitics")
    /\ args.populations = statePopulations
    /\ statePopulations # ConstructorPopulations
    /\ ret.red.rate.k = "num"
    /\ ret.blue.rate.k = "inf"
    /\ ret.swing.rate.k = "nan"

\* The step in which loader f calls fetchWithCache.
FetchStarts(f) == fetches[f].pc = "idle" /\ fetches'[f].key \in FetchKeys

\* The step in which the request or the parsing of f's call fails.
FetchFails(f) == fetches[f].error = "" /\ fetches'[f].error # ""

\* A call that finds an entry younger than cacheExpiry returns its data and
\* sends no request.
FreshEntryServed(f) ==
    FetchStarts(f) =>
        LET key == fetches'[f].key
        IN  /\ fetches'[f].cached = cacheGet(key)
            /\ (key \in DOMAIN cache /\ now - cache[key].timestamp < cacheExpiry)
                => /\ fetches'[f].pc = "returned"
                   /\ fetches'[f].ret = [k |-> "data", data |-> cache[key].data]
                   /\ network' = network
                   /\ cache' = cache

\* A call that fails returns the data of the entry it found when it started,
\* expired or not, and leaves the cache as it is; without such an entry it
\* throws.
FailureFallsBack(f) ==
    FetchFails(f) =>
        /\ fetches[f].pc \in {"fetch", "json"}
        /\ cache' = cache
        /\ IF fetches[f].cached # Undefined
           THEN /\ fetches'[f].pc = "returned"
                /\ fetches'[f].ret = [k |-> "data", data |-> fetches[f].cached.data]
           ELSE fetches'[f].pc = "threw"

\* C22: fetchWithCache returns the cached data without a request when the key's
\* entry is younger than cacheExpiry; when the request fails (network error,
\* status not OK, invalid JSON) and an entry for the key existed when the call
\* started, even an expired one, it returns that entry's data and leaves the
\* entry unchanged; the error reaches the caller only when no entry existed.
C22_CacheHitAndStaleFallback ==
    /\ [][\A f \in Fetchers : FreshEntryServed(f) /\ FailureFallsBack(f)]_vars
    /\ [](\A f \in Fetchers : fetches[f].pc = "threw" => fetches[f].cached = Undefined)

\* A call whose response had a bad status has returned the data of the entry it
\* found when it started, an entry older than cacheExpiry already then.
C22_Witness ==
    \E f \in Fetchers :
        /\ fetches[f].pc = "returned"
        /\ fetches[f].error = "http"
        /\ fetches[f].cached # Undefined
        /\ fetches[f].ret.data = fetches[f].cached.data
        /\ now - fetches[f].cached.timestamp > 2 * cacheExpiry

\* C29: getCacheStatus reports expired = false for a key exactly when
\* fetchWithCache, called at the same instant, would return that key's entry
\* from the cache without a request, at every age of the entry, the age
\* cacheExpiry included.
C29_FreshnessTestsAgree ==
    [][\A f \in Fetchers :
        (fetches[f].pc = "idle" /\ fetches'[f].pc = "returned" /\ fetches'[f].key = "")
        => \A key \in DOMAIN fetches'[f].ret.info :
            (fetches'[f].ret.info[key].expired = FALSE)
            <=> (key \in DOMAIN cache /\ now - cache[key].timestamp < cacheExpiry)]_vars

\* The step in which reader r calls getArticles.
LookupStarts(r) == lookups[r].pc = "idle" /\ lookups'[r].pc # "idle"

\* The step in which the news API answers r's call.
LookupFetched(r) == lookups[r].response = Undefined /\ lookups'[r].response # Undefined

\* Queries that are equal up to letter case and runs of whitespace.
EquivalentQueries == {<<"a", " ", "b">>, <<"A", " ", "\t", "B">>, <<"a", "\t", "b">>}

\* A successful fetch at time t caches the articles it returns under the key of
\* its query, with timestamp t.
FetchIsCached(r) ==
    LookupFetched(r) =>
        /\ lookups'[r].cacheKey \in DOMAIN newsCache'
        /\ lookups'[r].ret.k = "list"
        /\ newsCache'[lookups'[r].cacheKey] =
                [timestamp |-> now, data |-> lookups'[r].ret.list]

\* A call on a key with an entry of time t returns the entry's articles without
\* a call of the API up to t + cacheDuration; later it deletes the entry and
\* calls the API.
EntryServedForDuration(r) ==
    LookupStarts(r) =>
        LET key == lookups'[r].cacheKey
        IN  /\ key = generateCacheKey(lookups'[r].searchQuery)
            /\ key \in DOMAIN newsCache =>
                IF now <= newsCache[key].timestamp + cacheDuration
                THEN /\ lookups'[r].pc = "returned"
                     /\ lookups'[r].ret = List(newsCache[key].data)
                     /\ apiCalls' = apiCalls
                     /\ newsCache' = newsCache
                ELSE /\ key \notin DOMAIN newsCache'
                     /\ lookups'[r].pc = "everything"
                     /\ r \in apiCalls'

\* The calls of equivalent queries use one key, which the query with another
\* letter does not use.
EquivalentQueriesShareKey ==
    \A r1, r2 \in Readers :
        (lookups[r1].searchQuery \in EquivalentQueries /\ lookups[r2].pc # "idle")
        => (lookups[r1].cacheKey = lookups[r2].cacheKey
            <=> lookups[r2].searchQuery \in EquivalentQueries \cup {<<"a", "_", "b">>})

\* C23: after getArticles(q) fetched successfully at time t, every later
\* getArticles with the same cache key (queries equal up to letter case and
\* runs of whitespace) at a time up to t + cacheDuration returns the cached
\* articles without calling the news API; at any later time the expired entry
\* is deleted and the API is called again; getFromCache never returns an entry
\* older than cacheDuration.
C23_CachedForDuration ==
    /\ [][\A r \in Readers : FetchIsCached(r) /\ EntryServedForDuration(r)]_vars
    /\ []EquivalentQueriesShareKey

\* One reader fetched the articles of "a b"; exactly cacheDuration later the
\* other reader got them from the cache for "A  B".
C23_Witness ==
    \E r1, r2 \in Readers :
        /\ lookups[r1].pc = "returned"
        /\ lookups[r1].searchQuery = <<"a", " ", "b">>
        /\ lookups[r1].response # Undefined
        /\ lookups[r2].pc = "returned"
        /\ lookups[r2].searchQuery = <<"A", " ", "\t", "B">>
        /\ lookups[r2].cachedResult = lookups[r1].ret
        /\ lookups[r2].cacheKey \in DOMAIN newsCache
        /\ now = newsCache[lookups[r2].cacheKey].timestamp + cacheDuration

HasMessage(list, text) == \E i \in 1..Len(list) : list[i][1] = text

\* C24: validateAll exits with code 1 if and only if at least one error was
\* recorded or an exception was thrown during validation; a run that records
\* only warnings (an out-of-range rate, data older than 7 days) exits with
\* code 0.
C24_ExitCodeFromErrors ==
    validatorPc = "exited" =>
        /\ exit.code \in {0, 1}
        /\ exit.code = 1 <=> (Len(errors) > 0 \/ caught # Undefined)
        /\ (Len(errors) = 0 /\ caught = Undefined /\ Len(warnings) > 0) => exit.code = 0

\* A run on data with a rate out of range and a timestamp older than 7 days
\* recorded the two warnings and no error, and exited with code 0.
C24_Witness ==
    /\ validatorPc = "exited"
    /\ exit.code = 0
    /\ errors = <<>>
    /\ HasMessage(warnings, "outside expected range")
    /\ HasMessage(warnings, "Data is days old")

\* C25: every validateAll run that completes its checks has finished writing
\* validation-report.json, with status 'failed' exactly when errors is not
\* empty, before the process exits.
C25_ReportWrittenBeforeExit ==
    (validatorPc = "exited" /\ caught = Undefined) =>
        /\ reportWrite = Undefined
        /\ files["validation-report.json"].content = "json"
        /\ files["validation-report.json"].value.status
            = (IF Len(errors) > 0 THEN "failed" ELSE "passed")

\* The first n entries of analyzedIncidents are the first n incidents, in
\* the order of the input, each with an analysis field, and there is no other
\* entry.
AnalyzedUpTo(n) ==
    /\ Len(analysis.analyzedIncidents) = n
    /\ \A i \in 1..n :
        /\ analysis.analyzedIncidents[i].id = analysis.incidents[i].id
        /\ "analysis" \in DOMAIN analysis.analyzedIncidents[i]

\* C27: analyzeIncidents returns a list with exactly one entry per input
\* incident, in input order, each with an analysis field; a failure while one
\* incident is analysed neither drops that incident nor stops the analysis of
\* the later ones: while the loop is at the incident of index i the list holds
\* the i - 1 incidents before it, whatever happened to them, and the method
\* returns only when the list holds them all.
C27_OneEntryPerIncident ==
    /\ analysis.pc \in {"fetchNewsArticles", "batchAnalyzeArticles"}
        => AnalyzedUpTo(analysis.index - 1)
    /\ analysis.pc = "returned" => AnalyzedUpTo(Len(analysis.incidents))

\* The method has returned two incidents: the analysis of the first failed, the
\* second was classified after it.
C27_Witness ==
    /\ analysis.pc = "returned"
    /\ Len(analysis.incidents) = 2
    /\ analysis.incidents[1].id # analysis.incidents[2].id
    /\ analysis.analyzedIncidents[1].analysis.type = "error"
    /\ analysis.analyzedIncidents[2].analysis.type = "political"

\* The fallback value of the collect method that has caught an error.
IsFallback(call) ==
    CASE call.method = "collectCensusData" ->
            /\ call.ret.populations = MockCensusPopulations
            /\ call.ret.source = "Mock Census Data"
      [] call.method = "collectGVAData" ->
            /\ call.ret.source = "Gun Violence Archive (Estimated)"
            /\ \E daysIntoYear \in DaysIntoYear :
                call.ret.stateBreakdown = getFallbackStateData(daysIntoYear)
      [] call.method = "collectRecentIncidents" ->
            /\ call.ret.incidents = <<>>
            /\ call.ret.error = call.error
      [] OTHER -> FALSE

\* C21: collectCensusData, collectGVAData and collectRecentIncidents never
\* reject: when a request or the parsing of a response fails, the call resolves
\* with its fallback value, the mock census table, the estimated record with
\* the fallback state breakdown, or an empty incident list with the error
\* message.
C21_CollectorsNeverReject ==
    /\ collect.pc # "rejected"
    /\ collect.error # "" => collect.pc = "resolved" /\ IsFallback(collect)

\* collectGVAData has resolved with the estimate after the page of the totals
\* had no count, and getEstimatedIncidents is no method of the class.
C21_Witness ==
    /\ collect.method = "collectGVAData"
    /\ collect.pc = "resolved"
    /\ collect.error = "this.getEstimatedIncidents is not a function"
    /\ collect.ret.stateBreakdown[1] = [state |-> "TX", incidents |-> 3679]

\* The step writes to the file.
Writes(name) == files'[name] # files[name]

\* The step is the one in which collectAllData catches an error.
RunThrows == run.pc # "rejected" /\ run'.pc = "rejected"

\* The raw file is written only after all six sources have been collected,
\* the processed file of the day only after the raw file, latest.json only
\* after the processed file of the day.
WritesInOrder ==
    /\ Writes("raw-data.json") => run.successful = Sources
    /\ Writes("processed-data.json")
        => run.successful = Sources /\ run.saved = <<"raw-data.json">>
    /\ Writes("latest.json")
        => /\ run.successful = Sources
           /\ run.saved = <<"raw-data.json", "processed-data.json">>

\* After a step has thrown no file is written, and the error goes to the
\* caller.
NothingAfterThrow ==
    /\ RunThrows => run'.error # ""
    /\ run.pc = "rejected" => files' = files /\ run'.pc = "rejected"

\* C26: in collectAllData the raw data file is written only after all six
\* sources have been collected, the dated processed file only after the raw
\* file, and latest.json only after the dated processed file; if any step
\* throws, no later file is written, latest.json keeps its previous content,
\* and the error is rethrown to the caller.
C26_FilesInOrderAndLatestKept ==
    [][/\ WritesInOrder
       /\ NothingAfterThrow
       /\ RunThrows => files'["latest.json"] = files["latest.json"]]_vars

====
